---------------------------- MODULE Spec2Model ----------------------------
(***************************************************************************)
(* PromptLens front-end: the what-if word/segment diff, the client-side    *)
(* segmentation and explanation heuristics, the prompt segment editor and  *)
(* the generation handler of ExplainableMainInterface.                     *)
(*                                                                         *)
(* Strings are sequences of one-character strings.  Offsets into strings   *)
(* are JavaScript offsets (0-based); Sub(s, a, b) is s.substring(a, b).    *)
(***************************************************************************)
EXTENDS Integers, Sequences, FiniteSets, TLC

(***************************************************************************)
(* Bounds of the model.                                                    *)
(***************************************************************************)
MaxTextLen == 4

\* most segments in one list handed to computeSegmentChanges
MaxSegs == 2

\* longest prompt handed to clientSegmentPrompt
MaxPromptLen == 6

\* longest prompt typed into the PromptSegmentEditor, and the longest prompt
\* its handlers may build
MaxTypedLen == 1

MaxEditorPromptLen == 14

\* most segments the editor holds when one more is added
MaxEditorSegs == 1

\* longest prompt that saving an edited segment may change the prompt to
MaxSavedPromptLen == 4

\* most entries of the session history (once it holds that many, a generation
\* fails at its first call, so that no run adds one more)
MaxHistory == 1

\* most runs of handleSubmit on one FeedbackForm
MaxSubmitCalls == 2

\* most entries of the history when addPrompt is called on useSession alone
MaxSessionPrompts == 3

\* most calls of resetSession
MaxSessionResets == 1

\* most sign-in calls that are unanswered or whose onSuccess timeout runs
MaxAuthCalls == 2

\* most unanswered calls of refreshUser
MaxRefreshCalls == 1

\* most segments handed to clientExplainText / clientExplainImage, and the
\* longest generated text
MaxExplainSegs == 2

MaxGenLen == 3

\* characters the diffed texts are drawn from
TextAlphabet == {"a", "b", " "}

(***************************************************************************)
(* String helpers (methods of String.prototype)                            *)
(***************************************************************************)
Min(a, b) == IF a < b THEN a ELSE b

Max(a, b) == IF a > b THEN a ELSE b

Strs(A, n) == UNION {[1..k -> A] : k \in 0..n}

\* the characters matched by \s
WhiteSpace == {" ", "\t", "\n"}

IsWs(c) == c \in WhiteSpace

\* the characters matched by [.!?]
SentenceEnd == {".", "!", "?"}

\* s.substring(a, b) for 0 <= a, b
Sub(s, a, b) ==
  LET lo == Min(Min(a, b), Len(s))
      hi == Min(Max(a, b), Len(s))
  IN  [k \in 1..(hi - lo) |-> s[lo + k]]

\* end of the maximal run of characters of class C that starts at offset q
RECURSIVE RunEnd(_, _, _)
RunEnd(s, q, C) ==
  IF q < Len(s) /\ s[q + 1] \in C THEN RunEnd(s, q + 1, C) ELSE q

\* seq.indexOf(x, from): first 0-based position >= from holding x, or -1
IndexOf(seq, x, from) ==
  LET hits == {k \in from..(Len(seq) - 1) : seq[k + 1] = x}
  IN  IF hits = {} THEN -1 ELSE CHOOSE k \in hits : \A m \in hits : k <= m

UpperCaseLetters ==
  <<"A", "B", "C", "D", "E", "F", "G", "H", "I", "J", "K", "L", "M",
    "N", "O", "P", "Q", "R", "S", "T", "U", "V", "W", "X", "Y", "Z">>

LowerCaseLetters ==
  <<"a", "b", "c", "d", "e", "f", "g", "h", "i", "j", "k", "l", "m",
    "n", "o", "p", "q", "r", "s", "t", "u", "v", "w", "x", "y", "z">>

LowerChar(c) ==
  IF \E k \in 1..26 : UpperCaseLetters[k] = c
  THEN LowerCaseLetters[CHOOSE k \in 1..26 : UpperCaseLetters[k] = c]
  ELSE c

\* s.toLowerCase()
ToLower(s) == [k \in 1..Len(s) |-> LowerChar(s[k])]

\* s.indexOf(t, from) on strings: first offset >= from where t occurs, or -1
StrIndexOf(s, t, from) ==
  LET hits == {k \in from..(Len(s) - Len(t)) : Sub(s, k, k + Len(t)) = t}
  IN  IF hits = {} THEN -1 ELSE CHOOSE k \in hits : \A m \in hits : k <= m

\* s.includes(t)
Includes(s, t) == StrIndexOf(s, t, 0) # -1

\* s.trim()
RECURSIVE TrimStart(_)
TrimStart(s) == IF s # <<>> /\ IsWs(Head(s)) THEN TrimStart(Tail(s)) ELSE s

RECURSIVE TrimEnd(_)
TrimEnd(s) ==
  IF s # <<>> /\ IsWs(s[Len(s)]) THEN TrimEnd(SubSeq(s, 1, Len(s) - 1)) ELSE s

Trim(s) == TrimEnd(TrimStart(s))

(***************************************************************************)
(* String.prototype.split with a regular expression.  MatchEnd(kind, s, q) *)
(* is the end offset of the match of the expression anchored at offset q,  *)
(* or -1 when it does not match there.                                     *)
(***************************************************************************)
\* the words of phraseSeparators (each between \s+ and \s+, flag i)
SeparatorWords ==
  { <<"a", "n", "d">>, <<"w", "i", "t", "h">>, <<"i", "n">>, <<"o", "n">>, <<"a", "t">> }

\* WordSeparatorEnd for word\s+ (no whitespace needed before the word)
WordSeparatorEndInsideWord(s, q, w) ==
  LET k == q
      e == k + Len(w)
  IN  IF /\ e < Len(s)
         /\ ToLower(Sub(s, k, e)) = w
         /\ IsWs(s[e + 1])
      THEN RunEnd(s, e, WhiteSpace)
      ELSE -1

\* the end of a match of \s+word\s+ at offset q, for the separator word w
WordSeparatorEnd(s, q, w) ==
  LET k == RunEnd(s, q, WhiteSpace)
      e == k + Len(w)
  IN  IF /\ k > q
         /\ e < Len(s)
         /\ ToLower(Sub(s, k, e)) = w
         /\ IsWs(s[e + 1])
      THEN RunEnd(s, e, WhiteSpace)
      ELSE -1

\* /,\s*|\s+and\s+|\s+with\s+|\s+in\s+|\s+on\s+|\s+at\s+/gi anchored at q
PhraseSeparatorEnd(s, q) ==
  IF q >= Len(s) THEN -1
  ELSE IF s[q + 1] = "," THEN RunEnd(s, q + 1, WhiteSpace)
  ELSE LET ends == {WordSeparatorEnd(s, q, w) : w \in SeparatorWords} \ {-1}
       IN  IF ends = {} THEN -1 ELSE CHOOSE e \in ends : TRUE

MatchEnd(kind, s, q) ==
  CASE kind = "phrase" -> PhraseSeparatorEnd(s, q)
    [] kind = "ws" ->
         IF q < Len(s) /\ IsWs(s[q + 1]) THEN RunEnd(s, q, WhiteSpace) ELSE -1
    [] kind = "sentence" ->
         IF q < Len(s) /\ s[q + 1] \in SentenceEnd
         THEN RunEnd(s, q, SentenceEnd) ELSE -1
    [] OTHER -> -1

RECURSIVE SplitFrom(_, _, _, _)
SplitFrom(kind, s, p, q) ==
  IF q >= Len(s)
  THEN <<Sub(s, p, Len(s))>>
  ELSE LET e == MatchEnd(kind, s, q)
       IN  IF e = -1 \/ e = p
           THEN SplitFrom(kind, s, p, q + 1)
           ELSE <<Sub(s, p, q)>> \o SplitFrom(kind, s, e, e)

\* s.split(/\s+/)
SplitWs(s) == SplitFrom("ws", s, 0, 0)

(***************************************************************************)
(* computeWordDiff (FeedbackForm.tsx)                                      *)
(***************************************************************************)
VARIABLES oldText, newText, oldWords, newWords, i, j, diff, dpc

diffVars == <<oldText, newText, oldWords, newWords, i, j, diff, dpc>>

VARIABLES originalSegments, newSegments, changes, scpc

segChangeVars == <<originalSegments, newSegments, changes, scpc>>

VARIABLES exSegments, exText, exResult, expc

explainVars == <<exSegments, exText, exResult, expc>>

VARIABLES spPrompt, spResult, sppc

segmentVars == <<spPrompt, spResult, sppc>>

VARIABLES prompt, segmentedPrompt, editingSegmentId, editingText, debounceTimer

editorVars ==
  <<prompt, segmentedPrompt, editingSegmentId, editingText, debounceTimer>>

VARIABLES outputMode, isGenerating, generatedText, generatedImage,
          mainSegments, textExplanation, imageExplanation, currentPrompt,
          generationError, lastResultRef, sessionPrompts, currentPromptIndex

\* the position and the locals of the running call of handleGenerate
VARIABLES genpc, hgPrompt, hgSegments, hgOutputMode, hgNewText, hgExplanation,
          textResponse, explainResponse, imageResponse

displayVars ==
  <<generatedText, generatedImage, mainSegments, textExplanation,
    imageExplanation, currentPrompt>>

\* the rest of useSession's state: sessionId counts the ids generated so far
\* (each generateSessionId() yields a new one)
VARIABLES sessionId, feedbackSubmitted

sessionVars ==
  <<sessionPrompts, currentPromptIndex, sessionId, feedbackSubmitted>>

runVars ==
  <<genpc, hgPrompt, hgSegments, hgOutputMode, hgNewText, hgExplanation,
    textResponse, explainResponse, imageResponse>>

\* the state of the EnhancedWhatIfEditor; while its handleRegenerate is
\* suspended at await onRegenerate(...), whatIfAwaiting holds the editedPrompt
\* and editedSegments the handler closed over (Null otherwise)
VARIABLES editedPrompt, modifiedResult, whatIfAwaiting

whatIfVars == <<editedPrompt, modifiedResult, whatIfAwaiting>>

mainVars ==
  <<outputMode, isGenerating, generationError, lastResultRef, displayVars,
    sessionVars, runVars, whatIfVars>>

VARIABLES currentStep, responses, comments, consentGiven, isSubmitting,
          isSubmitted, error, feedbackInFlight, handleSubmitCalls

formVars ==
  <<currentStep, responses, comments, consentGiven, isSubmitting, isSubmitted,
    error, feedbackInFlight, handleSubmitCalls>>

\* the AuthProvider: its state, the two localStorage entries, the position of
\* initAuth, and the requests of login / register / loginWithGoogle /
\* refreshUser that have not been answered yet
VARIABLES state, localStorage, initpc, storedToken, authRequests

\* AppContent's page, and the AuthPage timeouts that will call onSuccess
VARIABLES currentPage, successTimers

authVars ==
  <<state, localStorage, initpc, storedToken, authRequests, currentPage,
    successTimers>>

vars ==
  <<diffVars, segChangeVars, explainVars, segmentVars, editorVars, mainVars,
    formVars, authVars>>

\* newWords.indexOf(oldWords[i], j)
FoundOldInNew(ow, nw, ci, cj) == IndexOf(nw, ow[ci + 1], cj)

\* oldWords.indexOf(newWords[j], i)
FoundNewInOld(ow, nw, ci, cj) == IndexOf(ow, nw[cj + 1], ci)

WD(t, ty) == [text |-> t, type |-> ty]

\* DiffStep with the last branch pushing only the removed word
DiffStepDropsAdded(ow, nw, ci, cj) ==
  IF ci >= Len(ow)
  THEN [emit |-> <<WD(nw[cj + 1], "added")>>, i |-> ci, j |-> cj + 1]
  ELSE IF cj >= Len(nw)
  THEN [emit |-> <<WD(ow[ci + 1], "removed")>>, i |-> ci + 1, j |-> cj]
  ELSE IF ow[ci + 1] = nw[cj + 1]
  THEN [emit |-> <<WD(ow[ci + 1], "unchanged")>>, i |-> ci + 1, j |-> cj + 1]
  ELSE LET foundOldInNew == FoundOldInNew(ow, nw, ci, cj)
           foundNewInOld == FoundNewInOld(ow, nw, ci, cj)
       IN  IF foundNewInOld # -1 /\
              (foundOldInNew = -1 \/ foundNewInOld - ci < foundOldInNew - cj)
           THEN [emit |-> <<WD(ow[ci + 1], "removed")>>, i |-> ci + 1, j |-> cj]
           ELSE IF foundOldInNew # -1
           THEN [emit |-> <<WD(nw[cj + 1], "added")>>, i |-> ci, j |-> cj + 1]
           ELSE [emit |-> <<WD(ow[ci + 1], "removed")>>,
                 i |-> ci + 1, j |-> cj + 1]

\* DiffStep without the branch for equal words (they reach the lookahead)
DiffStepNoEqualBranch(ow, nw, ci, cj) ==
  IF ci >= Len(ow)
  THEN [emit |-> <<WD(nw[cj + 1], "added")>>, i |-> ci, j |-> cj + 1]
  ELSE IF cj >= Len(nw)
  THEN [emit |-> <<WD(ow[ci + 1], "removed")>>, i |-> ci + 1, j |-> cj]
  ELSE LET foundOldInNew == FoundOldInNew(ow, nw, ci, cj)
           foundNewInOld == FoundNewInOld(ow, nw, ci, cj)
       IN  IF foundNewInOld # -1 /\
              (foundOldInNew = -1 \/ foundNewInOld - ci < foundOldInNew - cj)
           THEN [emit |-> <<WD(ow[ci + 1], "removed")>>, i |-> ci + 1, j |-> cj]
           ELSE IF foundOldInNew # -1
           THEN [emit |-> <<WD(nw[cj + 1], "added")>>, i |-> ci, j |-> cj + 1]
           ELSE [emit |-> <<WD(ow[ci + 1], "removed"), WD(nw[cj + 1], "added")>>,
                 i |-> ci + 1, j |-> cj + 1]

\* DiffStep with the distances compared by <= (a tie removes the old word)
DiffStepTieRemoves(ow, nw, ci, cj) ==
  IF ci >= Len(ow)
  THEN [emit |-> <<WD(nw[cj + 1], "added")>>, i |-> ci, j |-> cj + 1]
  ELSE IF cj >= Len(nw)
  THEN [emit |-> <<WD(ow[ci + 1], "removed")>>, i |-> ci + 1, j |-> cj]
  ELSE IF ow[ci + 1] = nw[cj + 1]
  THEN [emit |-> <<WD(ow[ci + 1], "unchanged")>>, i |-> ci + 1, j |-> cj + 1]
  ELSE LET foundOldInNew == FoundOldInNew(ow, nw, ci, cj)
           foundNewInOld == FoundNewInOld(ow, nw, ci, cj)
       IN  IF foundNewInOld # -1 /\
              (foundOldInNew = -1 \/ foundNewInOld - ci <= foundOldInNew - cj)
           THEN [emit |-> <<WD(ow[ci + 1], "removed")>>, i |-> ci + 1, j |-> cj]
           ELSE IF foundOldInNew # -1
           THEN [emit |-> <<WD(nw[cj + 1], "added")>>, i |-> ci, j |-> cj + 1]
           ELSE [emit |-> <<WD(ow[ci + 1], "removed"), WD(nw[cj + 1], "added")>>,
                 i |-> ci + 1, j |-> cj + 1]

\* DiffStep with the last branch pushing the added word before the removed one
DiffStepAddedFirst(ow, nw, ci, cj) ==
  IF ci >= Len(ow)
  THEN [emit |-> <<WD(nw[cj + 1], "added")>>, i |-> ci, j |-> cj + 1]
  ELSE IF cj >= Len(nw)
  THEN [emit |-> <<WD(ow[ci + 1], "removed")>>, i |-> ci + 1, j |-> cj]
  ELSE IF ow[ci + 1] = nw[cj + 1]
  THEN [emit |-> <<WD(ow[ci + 1], "unchanged")>>, i |-> ci + 1, j |-> cj + 1]
  ELSE LET foundOldInNew == FoundOldInNew(ow, nw, ci, cj)
           foundNewInOld == FoundNewInOld(ow, nw, ci, cj)
       IN  IF foundNewInOld # -1 /\
              (foundOldInNew = -1 \/ foundNewInOld - ci < foundOldInNew - cj)
           THEN [emit |-> <<WD(ow[ci + 1], "removed")>>, i |-> ci + 1, j |-> cj]
           ELSE IF foundOldInNew # -1
           THEN [emit |-> <<WD(nw[cj + 1], "added")>>, i |-> ci, j |-> cj + 1]
           ELSE [emit |-> <<WD(nw[cj + 1], "added"), WD(ow[ci + 1], "removed")>>,
                 i |-> ci + 1, j |-> cj + 1]

\* one iteration of the while loop: the entries pushed and the new cursors
DiffStep(ow, nw, ci, cj) ==
  IF ci >= Len(ow)
  THEN [emit |-> <<WD(nw[cj + 1], "added")>>, i |-> ci, j |-> cj + 1]
  ELSE IF cj >= Len(nw)
  THEN [emit |-> <<WD(ow[ci + 1], "removed")>>, i |-> ci + 1, j |-> cj]
  ELSE IF ow[ci + 1] = nw[cj + 1]
  THEN [emit |-> <<WD(ow[ci + 1], "unchanged")>>, i |-> ci + 1, j |-> cj + 1]
  ELSE LET foundOldInNew == FoundOldInNew(ow, nw, ci, cj)
           foundNewInOld == FoundNewInOld(ow, nw, ci, cj)
       IN  IF foundNewInOld # -1 /\
              (foundOldInNew = -1 \/ foundNewInOld - ci < foundOldInNew - cj)
           THEN [emit |-> <<WD(ow[ci + 1], "removed")>>, i |-> ci + 1, j |-> cj]
           ELSE IF foundOldInNew # -1
           THEN [emit |-> <<WD(nw[cj + 1], "added")>>, i |-> ci, j |-> cj + 1]
           ELSE [emit |-> <<WD(ow[ci + 1], "removed"), WD(nw[cj + 1], "added")>>,
                 i |-> ci + 1, j |-> cj + 1]

\* computeWordDiff is not running
DiffIdle ==
  /\ oldText = <<>>
  /\ newText = <<>>
  /\ oldWords = <<>>
  /\ newWords = <<>>
  /\ i = 0
  /\ j = 0
  /\ diff = <<>>
  /\ dpc = "idle"

\* a longer pair of texts handed to computeWordDiff: one word replaced
ExampleOldText == <<"a", " ", "r", "e", "d", " ", "c", "a", "r">>

ExampleNewText == <<"a", " ", "b", "l", "u", "e", " ", "c", "a", "r">>

DiffInit ==
  /\ \/ /\ oldText \in Strs(TextAlphabet, MaxTextLen)
        /\ newText \in Strs(TextAlphabet, MaxTextLen)
     \/ /\ oldText = ExampleOldText
        /\ newText = ExampleNewText
  /\ oldWords = SplitWs(oldText)
  /\ newWords = SplitWs(newText)
  /\ i = 0
  /\ j = 0
  /\ diff = <<>>
  /\ dpc = "scan"

\* one pass through the body of the while loop
WordDiffIteration ==
  /\ dpc = "scan"
  /\ i < Len(oldWords) \/ j < Len(newWords)
  /\ LET r == DiffStep(oldWords, newWords, i, j)
     IN  /\ diff' = diff \o r.emit
         /\ i' = r.i
         /\ j' = r.j
  /\ UNCHANGED <<oldText, newText, oldWords, newWords, dpc>>
  /\ UNCHANGED <<segChangeVars, explainVars, segmentVars, editorVars, mainVars, formVars, authVars>>

\* the loop condition fails: return diff
WordDiffReturn ==
  /\ dpc = "scan"
  /\ ~(i < Len(oldWords) \/ j < Len(newWords))
  /\ dpc' = "done"
  /\ UNCHANGED <<oldText, newText, oldWords, newWords, i, j, diff>>
  /\ UNCHANGED <<segChangeVars, explainVars, segmentVars, editorVars, mainVars, formVars, authVars>>

DiffNext == WordDiffIteration \/ WordDiffReturn

(***************************************************************************)
(* computeSegmentChanges (FeedbackForm.tsx)                                *)
(***************************************************************************)
\* texts of the segments handed to computeSegmentChanges
SegTexts ==
  { <<>>, <<"a">>, <<"A">>, <<"b">>, <<"a", "b">>,
    <<"a", "b", "c", "d", "e", "f">>, <<"a", "b", "c", "d", "e", "g">> }

\* an optional segment reference: absent (undefined) or present
Absent == <<>>

Present(seg) == <<seg>>

SegmentChange(ty, o, n) == [type |-> ty, originalSegment |-> o, newSegment |-> n]

\* array.find(pred): the first index of the set of indices satisfying pred, or 0
FirstOf(S) == IF S = {} THEN 0 ELSE CHOOSE k \in S : \A m \in S : k <= m

\* Similar testing only whether the new text contains the start of the
\* original text
SimilarOneWay(orig, n) ==
  Includes(ToLower(n.text), Sub(ToLower(orig.text), 0, 5))

\* the "similar" test of the second find
Similar(orig, n) ==
  \/ Includes(ToLower(n.text), Sub(ToLower(orig.text), 0, 5))
  \/ Includes(ToLower(orig.text), Sub(ToLower(n.text), 0, 5))

\* ClassifyOriginal that forgets matchedNewIds.add(similar.id)
ClassifyOriginalForgetsSimilar(orig, new, matchedNewIds) ==
  LET match == FirstOf({n \in 1..Len(new) :
                          /\ ToLower(new[n].text) = ToLower(orig.text)
                          /\ new[n].id \notin matchedNewIds})
      similar == FirstOf({n \in 1..Len(new) :
                          /\ new[n].id \notin matchedNewIds
                          /\ Similar(orig, new[n])})
  IN  IF match # 0
      THEN [change |-> SegmentChange("unchanged", Present(orig), Present(new[match])),
            matched |-> matchedNewIds \cup {new[match].id}]
      ELSE IF similar # 0
      THEN [change |-> SegmentChange("modified", Present(orig), Present(new[similar])),
            matched |-> matchedNewIds]
      ELSE [change |-> SegmentChange("removed", Present(orig), Absent),
            matched |-> matchedNewIds]

\* ClassifyOriginal whose first find does not skip the new segments already
\* matched
ClassifyOriginalRematches(orig, new, matchedNewIds) ==
  LET match == FirstOf({n \in 1..Len(new) :
                          ToLower(new[n].text) = ToLower(orig.text)})
      similar == FirstOf({n \in 1..Len(new) :
                          /\ new[n].id \notin matchedNewIds
                          /\ Similar(orig, new[n])})
  IN  IF match # 0
      THEN [change |-> SegmentChange("unchanged", Present(orig), Present(new[match])),
            matched |-> matchedNewIds \cup {new[match].id}]
      ELSE IF similar # 0
      THEN [change |-> SegmentChange("modified", Present(orig), Present(new[similar])),
            matched |-> matchedNewIds \cup {new[similar].id}]
      ELSE [change |-> SegmentChange("removed", Present(orig), Absent),
            matched |-> matchedNewIds]

\* the body of originalSegments.forEach: the change pushed for orig and the
\* new value of matchedNewIds
ClassifyOriginal(orig, new, matchedNewIds) ==
  LET match == FirstOf({n \in 1..Len(new) :
                          /\ ToLower(new[n].text) = ToLower(orig.text)
                          /\ new[n].id \notin matchedNewIds})
      similar == FirstOf({n \in 1..Len(new) :
                          /\ new[n].id \notin matchedNewIds
                          /\ Similar(orig, new[n])})
  IN  IF match # 0
      THEN [change |-> SegmentChange("unchanged", Present(orig), Present(new[match])),
            matched |-> matchedNewIds \cup {new[match].id}]
      ELSE IF similar # 0
      THEN [change |-> SegmentChange("modified", Present(orig), Present(new[similar])),
            matched |-> matchedNewIds \cup {new[similar].id}]
      ELSE [change |-> SegmentChange("removed", Present(orig), Absent),
            matched |-> matchedNewIds]

\* AddedChanges that stores the added segment in the originalSegment field
RECURSIVE AddedChangesWrongField(_, _, _)
AddedChangesWrongField(new, matchedNewIds, n) ==
  IF n > Len(new) THEN <<>>
  ELSE (IF new[n].id \notin matchedNewIds
        THEN <<SegmentChange("added", Present(new[n]), Absent)>>
        ELSE <<>>)
       \o AddedChangesWrongField(new, matchedNewIds, n + 1)

\* newSegments.forEach: the added entries, from index n on
RECURSIVE AddedChanges(_, _, _)
AddedChanges(new, matchedNewIds, n) ==
  IF n > Len(new) THEN <<>>
  ELSE (IF new[n].id \notin matchedNewIds
        THEN <<SegmentChange("added", Absent, Present(new[n]))>>
        ELSE <<>>)
       \o AddedChanges(new, matchedNewIds, n + 1)

\* originalSegments.forEach from index k on, then the added entries
RECURSIVE SegmentChangesFrom(_, _, _, _)
SegmentChangesFrom(orig, new, k, matchedNewIds) ==
  IF k > Len(orig)
  THEN AddedChanges(new, matchedNewIds, 1)
  ELSE LET r == ClassifyOriginal(orig[k], new, matchedNewIds)
       IN  <<r.change>> \o SegmentChangesFrom(orig, new, k + 1, r.matched)

ComputeSegmentChanges(orig, new) == SegmentChangesFrom(orig, new, 1, {})

\* lists of at most MaxSegs segments with the given id prefix; ids are unique
SegmentLists(prefix) ==
  UNION { { [k \in 1..n |-> [id |-> <<prefix, k>>, text |-> t[k]]] :
            t \in [1..n -> SegTexts] } : n \in 0..MaxSegs }

\* computeSegmentChanges is not running
SegChangeIdle ==
  /\ originalSegments = <<>>
  /\ newSegments = <<>>
  /\ changes = <<>>
  /\ scpc = "idle"

SegChangeInit ==
  /\ originalSegments \in SegmentLists("orig")
  /\ newSegments \in SegmentLists("new")
  /\ changes = <<>>
  /\ scpc = "call"

\* the call computeSegmentChanges(originalSegments, newSegments)
ComputeSegmentChangesCall ==
  /\ scpc = "call"
  /\ changes' = ComputeSegmentChanges(originalSegments, newSegments)
  /\ scpc' = "done"
  /\ UNCHANGED <<originalSegments, newSegments>>
  /\ UNCHANGED <<diffVars, explainVars, segmentVars, editorVars, mainVars, formVars, authVars>>

SegChangeNext == ComputeSegmentChangesCall

(***************************************************************************)
(* clientExplainText / clientExplainImage (api.service)                    *)
(*                                                                         *)
(* Confidences are numbers of 1/ConfScale; ConfScale is a multiple of 1000 *)
(* and of every word count up to 6, so overlap ratios are exact.  A call   *)
(* of Math.random() is a draw in thousandths from RandomLevels; rnd is the *)
(* sequence of the draws of one call, consumed in program order.           *)
(***************************************************************************)
ConfScale == 60000

RandomLevels == {0, 999}

\* texts and importances (in thousandths) of the explained segments
ExplainSegTexts == { <<"a">>, <<"b">>, <<"a", " ", "b">> }

ImportanceLevels == {0, 500, 1000}

GenAlphabet == {"a", " ", "."}

\* generatedText.split(/[.!?]+/).filter(s => s.trim())
RECURSIVE NonBlank(_)
NonBlank(ss) ==
  IF ss = <<>> THEN <<>>
  ELSE (IF Trim(Head(ss)) # <<>> THEN <<Head(ss)>> ELSE <<>>) \o NonBlank(Tail(ss))

Sentences(text) == NonBlank(SplitFrom("sentence", text, 0, 0))

\* segmentWords.filter(word => sentenceWords.some(...)).length
Overlap(segmentWords, sentenceWords) ==
  Cardinality({k \in 1..Len(segmentWords) :
     \E m \in 1..Len(sentenceWords) :
        \/ Includes(sentenceWords[m], segmentWords[k])
        \/ Includes(segmentWords[k], sentenceWords[m])})

\* the test guarding the token_overlap push (overlapRatio > 0.2 || ...)
TokenMatch(segmentWords, sentence) ==
  \/ Overlap(segmentWords, SplitWs(ToLower(sentence))) * 5
       > Max(Len(segmentWords), 1)
  \/ \E k \in 1..Len(segmentWords) : Includes(ToLower(sentence), segmentWords[k])

\* TokenConfidence without the Math.min(0.95, ...) cap
TokenConfidenceUncapped(segmentWords, sentence, r) ==
  (Overlap(segmentWords, SplitWs(ToLower(sentence))) * ConfScale)
      \div Max(Len(segmentWords), 1)
    + (3 * ConfScale) \div 10 + (r * 2 * ConfScale) \div 10000

\* Math.min(0.95, overlapRatio + 0.3 + Math.random() * 0.2), r the draw
TokenConfidence(segmentWords, sentence, r) ==
  Min((95 * ConfScale) \div 100,
      (Overlap(segmentWords, SplitWs(ToLower(sentence))) * ConfScale)
          \div Max(Len(segmentWords), 1)
        + (3 * ConfScale) \div 10 + (r * 2 * ConfScale) \div 10000)

\* sentences.forEach for one segment, from sentence index k (0-based) on:
\* the mappings pushed and the position reached in the draws
RECURSIVE TokenMappings(_, _, _, _, _)
TokenMappings(segment, sentences, k, rnd, pos) ==
  IF k >= Len(sentences)
  THEN [mappings |-> <<>>, pos |-> pos]
  ELSE LET segmentWords == SplitWs(ToLower(segment.text))
           sentence == sentences[k + 1]
       IN  IF TokenMatch(segmentWords, sentence)
           THEN LET rest == TokenMappings(segment, sentences, k + 1, rnd, pos + 1)
                IN  [mappings |->
                       <<[segmentId |-> segment.id,
                          segmentText |-> segment.text,
                          outputSentenceIndex |-> k,
                          outputSentenceText |-> Trim(sentence),
                          confidence |-> TokenConfidence(segmentWords, sentence, rnd[pos]),
                          method |-> "token_overlap"]>> \o rest.mappings,
                     pos |-> rest.pos]
           ELSE TokenMappings(segment, sentences, k + 1, rnd, pos)

\* ForcedMapping without the sentences.length > 0 guard
ForcedMappingUnguarded(segment, sentences, mappings, rnd, pos) ==
  IF ~\E m \in 1..Len(mappings) : mappings[m].segmentId = segment.id
  THEN LET randomIndex == (rnd[pos] * Len(sentences)) \div 1000
           inRange == randomIndex < Len(sentences)
       IN  [mappings |->
              IF inRange
              THEN <<[segmentId |-> segment.id,
                      segmentText |-> segment.text,
                      outputSentenceIndex |-> randomIndex,
                      outputSentenceText |-> Trim(sentences[randomIndex + 1]),
                      confidence |-> (3 * ConfScale) \div 10
                                       + (rnd[pos + 1] * 3 * ConfScale) \div 10000,
                      method |-> "embedding_similarity"]>>
              ELSE <<>>,
            threw |-> ~inRange,
            pos |-> pos + 2]
  ELSE [mappings |-> <<>>, threw |-> FALSE, pos |-> pos]

\* ForcedMapping without the !mappings.some(m => m.segmentId === segment.id)
\* test
ForcedMappingAlways(segment, sentences, mappings, rnd, pos) ==
  IF Len(sentences) > 0
  THEN LET randomIndex == (rnd[pos] * Len(sentences)) \div 1000
           inRange == randomIndex < Len(sentences)
       IN  [mappings |->
              IF inRange
              THEN <<[segmentId |-> segment.id,
                      segmentText |-> segment.text,
                      outputSentenceIndex |-> randomIndex,
                      outputSentenceText |-> Trim(sentences[randomIndex + 1]),
                      confidence |-> (3 * ConfScale) \div 10
                                       + (rnd[pos + 1] * 3 * ConfScale) \div 10000,
                      method |-> "embedding_similarity"]>>
              ELSE <<>>,
            threw |-> ~inRange,
            pos |-> pos + 2]
  ELSE [mappings |-> <<>>, threw |-> FALSE, pos |-> pos]

\* the forced assignment after sentences.forEach: the mapping pushed (if any),
\* whether sentences[randomIndex].trim() threw, and the position in the draws
ForcedMapping(segment, sentences, mappings, rnd, pos) ==
  IF /\ ~\E m \in 1..Len(mappings) : mappings[m].segmentId = segment.id
     /\ Len(sentences) > 0
  THEN LET randomIndex == (rnd[pos] * Len(sentences)) \div 1000
           inRange == randomIndex < Len(sentences)
       IN  [mappings |->
              IF inRange
              THEN <<[segmentId |-> segment.id,
                      segmentText |-> segment.text,
                      outputSentenceIndex |-> randomIndex,
                      outputSentenceText |-> Trim(sentences[randomIndex + 1]),
                      confidence |-> (3 * ConfScale) \div 10
                                       + (rnd[pos + 1] * 3 * ConfScale) \div 10000,
                      method |-> "embedding_similarity"]>>
              ELSE <<>>,
            threw |-> ~inRange,
            pos |-> pos + 2]
  ELSE [mappings |-> <<>>, threw |-> FALSE, pos |-> pos]

\* segments.forEach from segment index k (1-based) on
RECURSIVE ExplainSegments(_, _, _, _, _, _)
ExplainSegments(segments, sentences, k, mappings, rnd, pos) ==
  IF k > Len(segments)
  THEN [mappings |-> mappings, threw |-> FALSE, pos |-> pos]
  ELSE LET tok == TokenMappings(segments[k], sentences, 0, rnd, pos)
           afterTok == mappings \o tok.mappings
           forced == ForcedMapping(segments[k], sentences, afterTok, rnd, tok.pos)
       IN  IF forced.threw
           THEN [mappings |-> afterTok, threw |-> TRUE, pos |-> forced.pos]
           ELSE ExplainSegments(segments, sentences, k + 1,
                                afterTok \o forced.mappings, rnd, forced.pos)

RECURSIVE SumConfidence(_)
SumConfidence(mappings) ==
  IF mappings = <<>> THEN 0
  ELSE Head(mappings).confidence + SumConfidence(Tail(mappings))

\* mappings.reduce((acc, m) => acc + m.confidence, 0) / Math.max(mappings.length, 1)
\* as the fraction num / den
OverallConfidence(mappings) ==
  [num |-> SumConfidence(mappings), den |-> Max(Len(mappings), 1)]

ClientExplainText(segments, genText, rnd) ==
  LET run == ExplainSegments(segments, Sentences(genText), 1, <<>>, rnd, 1)
  IN  [kind |-> "text",
       threw |-> run.threw,
       mappings |-> run.mappings,
       overallConfidence |-> OverallConfidence(run.mappings),
       explanationMethod |-> "client_approximation"]

\* the number of Math.random() calls of clientExplainText on these inputs
DrawsOfExplainText(segments, genText) ==
  LET most == Len(segments) * (Len(Sentences(genText)) + 2)
  IN  ExplainSegments(segments, Sentences(genText), 1, <<>>,
                      [k \in 1..(most + 1) |-> 0], 1).pos - 1

\* segments.forEach of clientExplainImage; the heatmap points do not enter
\* the confidences and are left out
RECURSIVE ImageMappings(_, _)
ImageMappings(segments, k) ==
  IF k > Len(segments) THEN <<>>
  ELSE <<[segmentId |-> segments[k].id,
          segmentText |-> segments[k].text,
          confidence |-> (segments[k].importance * ConfScale) \div 1000,
          method |-> "clip_embedding"]>> \o ImageMappings(segments, k + 1)

ClientExplainImage(segments) ==
  [kind |-> "image",
   threw |-> FALSE,
   mappings |-> ImageMappings(segments, 1),
   overallConfidence |-> OverallConfidence(ImageMappings(segments, 1)),
   explanationMethod |-> "client_approximation"]

ExplainSegmentLists(levels) ==
  UNION { { [k \in 1..n |-> [id |-> <<"seg", k>>, text |-> t[k],
                             importance |-> imp[k]]] :
            t \in [1..n -> ExplainSegTexts], imp \in [1..n -> levels] }
          : n \in 0..MaxExplainSegs }

NoResult == [kind |-> "none"]

\* no explanation is being computed
ExplainIdle ==
  /\ exSegments = <<>>
  /\ exText = <<>>
  /\ exResult = NoResult
  /\ expc = "idle"

\* the inputs vary the generated text (read by clientExplainText only) or
\* the importances (read by clientExplainImage only)
ExplainInit ==
  /\ \/ /\ exSegments \in ExplainSegmentLists({1000})
        /\ exText \in Strs(GenAlphabet, MaxGenLen)
     \/ /\ exSegments \in ExplainSegmentLists(ImportanceLevels)
        /\ exText = <<>>
  /\ exResult = NoResult
  /\ expc = "call"

\* the call clientExplainText(exSegments, exText)
ClientExplainTextCall ==
  /\ expc = "call"
  /\ \E rnd \in [1..DrawsOfExplainText(exSegments, exText) -> RandomLevels] :
       exResult' = ClientExplainText(exSegments, exText, rnd)
  /\ expc' = "done"
  /\ UNCHANGED <<exSegments, exText>>
  /\ UNCHANGED <<diffVars, segChangeVars, segmentVars, editorVars, mainVars, formVars, authVars>>

\* the call clientExplainImage(exSegments, 512, 512)
ClientExplainImageCall ==
  /\ expc = "call"
  /\ exResult' = ClientExplainImage(exSegments)
  /\ expc' = "done"
  /\ UNCHANGED <<exSegments, exText>>
  /\ UNCHANGED <<diffVars, segChangeVars, segmentVars, editorVars, mainVars, formVars, authVars>>

ExplainNext == ClientExplainTextCall \/ ClientExplainImageCall

(***************************************************************************)
(* clientSegmentPrompt (api.service)                                       *)
(*                                                                         *)
(* A segment is the record of a PromptSegment with the fields of metadata  *)
(* (importance, category, color) beside the others; importance is in       *)
(* thousandths.  generateSegmentId yields a fresh id: <<"seg", n>> for the *)
(* n-th id of a run.                                                       *)
(***************************************************************************)
PromptAlphabet == {"a", "t", " ", ","}

Colors == <<"#0071e3", "#00823b", "#bf5000", "#d70015", "#6366f1", "#8b5cf6">>

StyleWords ==
  { <<"s", "t", "y", "l", "e">>,
    <<"a", "e", "s", "t", "h", "e", "t", "i", "c">>,
    <<"c", "i", "n", "e", "m", "a", "t", "i", "c">>,
    <<"r", "e", "a", "l", "i", "s", "t", "i", "c">>,
    <<"a", "b", "s", "t", "r", "a", "c", "t">>,
    <<"m", "i", "n", "i", "m", "a", "l", "i", "s", "t">>,
    <<"d", "e", "t", "a", "i", "l", "e", "d">> }

ModifierWords ==
  { <<"c", "o", "l", "o", "r">>,
    <<"l", "i", "g", "h", "t">>,
    <<"d", "a", "r", "k">>,
    <<"b", "r", "i", "g", "h", "t">>,
    <<"s", "h", "a", "d", "o", "w">>,
    <<"g", "l", "o", "w">>,
    <<"n", "e", "o", "n">> }

SubjectWords ==
  { <<"p", "e", "r", "s", "o", "n">>,
    <<"m", "a", "n">>,
    <<"w", "o", "m", "a", "n">>,
    <<"c", "h", "i", "l", "d">>,
    <<"a", "n", "i", "m", "a", "l">>,
    <<"o", "b", "j", "e", "c", "t">>,
    <<"b", "u", "i", "l", "d", "i", "n", "g">>,
    <<"l", "a", "n", "d", "s", "c", "a", "p", "e">> }

ActionWords ==
  { <<"r", "u", "n", "n", "i", "n", "g">>,
    <<"w", "a", "l", "k", "i", "n", "g">>,
    <<"f", "l", "y", "i", "n", "g">>,
    <<"s", "i", "t", "t", "i", "n", "g">>,
    <<"c", "r", "e", "a", "t", "i", "n", "g">>,
    <<"m", "a", "k", "i", "n", "g">> }

ContainsAny(s, words) == \E w \in words : Includes(s, w)

\* the category chain on lowerPhrase
CategoryOf(lowerPhrase) ==
  IF ContainsAny(lowerPhrase, StyleWords) THEN "style"
  ELSE IF ContainsAny(lowerPhrase, ModifierWords) THEN "modifier"
  ELSE IF ContainsAny(lowerPhrase, SubjectWords) THEN "subject"
  ELSE IF ContainsAny(lowerPhrase, ActionWords) THEN "action"
  ELSE "context"

\* trimmedPhrase.split(' ').length
SpaceSplitLength(s) == 1 + Cardinality({k \in 1..Len(s) : s[k] = " "})

\* prompt.split(phraseSeparators).filter(p => p.trim())
Phrases(promptStr) == NonBlank(SplitFrom("phrase", promptStr, 0, 0))

\* SegmentsFrom searching every phrase from the start of the prompt
RECURSIVE SegmentsFromStart(_, _, _, _, _, _, _)
SegmentsFromStart(promptStr, phrases, k, currentIndex, colorIndex, rnd, idBase) ==
  IF k > Len(phrases) THEN <<>>
  ELSE LET trimmedPhrase == Trim(phrases[k])
           startIndex == StrIndexOf(promptStr, trimmedPhrase, 0)
       IN  IF trimmedPhrase = <<>> \/ startIndex = -1
           THEN SegmentsFromStart(promptStr, phrases, k + 1, currentIndex, colorIndex,
                                  rnd, idBase)
           ELSE <<[id |-> <<"seg", idBase + colorIndex>>,
                   text |-> trimmedPhrase,
                   type |-> IF SpaceSplitLength(trimmedPhrase) > 2
                            THEN "phrase" ELSE "keyword",
                   startIndex |-> startIndex,
                   endIndex |-> startIndex + Len(trimmedPhrase),
                   importance |-> 500 + (rnd[colorIndex + 1] * 500) \div 1000,
                   category |-> CategoryOf(ToLower(trimmedPhrase)),
                   color |-> Colors[(colorIndex % Len(Colors)) + 1]]>>
                \o SegmentsFromStart(promptStr, phrases, k + 1,
                                     startIndex + Len(trimmedPhrase),
                                     colorIndex + 1, rnd, idBase)

\* SegmentsFrom moving the cursor two characters past each segment found, as
\* if every separator were two characters long
RECURSIVE SegmentsFromPastSeparator(_, _, _, _, _, _, _)
SegmentsFromPastSeparator(promptStr, phrases, k, currentIndex, colorIndex, rnd, idBase) ==
  IF k > Len(phrases) THEN <<>>
  ELSE LET trimmedPhrase == Trim(phrases[k])
           startIndex == StrIndexOf(promptStr, trimmedPhrase, currentIndex)
       IN  IF trimmedPhrase = <<>> \/ startIndex = -1
           THEN SegmentsFromPastSeparator(promptStr, phrases, k + 1, currentIndex, colorIndex,
                             rnd, idBase)
           ELSE <<[id |-> <<"seg", idBase + colorIndex>>,
                   text |-> trimmedPhrase,
                   type |-> IF SpaceSplitLength(trimmedPhrase) > 2
                            THEN "phrase" ELSE "keyword",
                   startIndex |-> startIndex,
                   endIndex |-> startIndex + Len(trimmedPhrase),
                   importance |-> 500 + (rnd[colorIndex + 1] * 500) \div 1000,
                   category |-> CategoryOf(ToLower(trimmedPhrase)),
                   color |-> Colors[(colorIndex % Len(Colors)) + 1]]>>
                \o SegmentsFromPastSeparator(promptStr, phrases, k + 1,
                                startIndex + Len(trimmedPhrase) + 2,
                                colorIndex + 1, rnd, idBase)

\* phrases.forEach from phrase k on: the segments pushed
RECURSIVE SegmentsFrom(_, _, _, _, _, _, _)
SegmentsFrom(promptStr, phrases, k, currentIndex, colorIndex, rnd, idBase) ==
  IF k > Len(phrases) THEN <<>>
  ELSE LET trimmedPhrase == Trim(phrases[k])
           startIndex == StrIndexOf(promptStr, trimmedPhrase, currentIndex)
       IN  IF trimmedPhrase = <<>> \/ startIndex = -1
           THEN SegmentsFrom(promptStr, phrases, k + 1, currentIndex, colorIndex,
                             rnd, idBase)
           ELSE <<[id |-> <<"seg", idBase + colorIndex>>,
                   text |-> trimmedPhrase,
                   type |-> IF SpaceSplitLength(trimmedPhrase) > 2
                            THEN "phrase" ELSE "keyword",
                   startIndex |-> startIndex,
                   endIndex |-> startIndex + Len(trimmedPhrase),
                   importance |-> 500 + (rnd[colorIndex + 1] * 500) \div 1000,
                   category |-> CategoryOf(ToLower(trimmedPhrase)),
                   color |-> Colors[(colorIndex % Len(Colors)) + 1]]>>
                \o SegmentsFrom(promptStr, phrases, k + 1,
                                startIndex + Len(trimmedPhrase),
                                colorIndex + 1, rnd, idBase)

\* WholePromptSegment built like a segment of the loop (keyword, lowest drawn
\* importance)
WholePromptSegmentAsKeyword(promptStr, idBase) ==
  [id |-> <<"seg", idBase>>,
   text |-> promptStr,
   type |-> "keyword",
   startIndex |-> 0,
   endIndex |-> Len(promptStr),
   importance |-> 500,
   category |-> "context",
   color |-> Colors[1]]

\* the single segment pushed when no phrase gave a segment
WholePromptSegment(promptStr, idBase) ==
  [id |-> <<"seg", idBase>>,
   text |-> promptStr,
   type |-> "semantic_chunk",
   startIndex |-> 0,
   endIndex |-> Len(promptStr),
   importance |-> 1000,
   category |-> "context",
   color |-> Colors[1]]

\* the SegmentedPrompt returned (timestamp and sessionId left out)
ClientSegmentPrompt(promptStr, rnd, idBase) ==
  LET segments == SegmentsFrom(promptStr, Phrases(promptStr), 1, 0, 0, rnd, idBase)
  IN  [originalPrompt |-> promptStr,
       segments |-> IF Len(segments) = 0
                    THEN <<WholePromptSegment(promptStr, idBase)>>
                    ELSE segments]

\* the number of Math.random() calls for importances on this prompt
DrawsOfSegmentPrompt(promptStr) ==
  Len(SegmentsFrom(promptStr, Phrases(promptStr), 1, 0, 0,
                   [k \in 1..(Len(promptStr) + 1) |-> 0], 0))

NoSegmentedPrompt == [originalPrompt |-> <<>>, segments |-> <<>>]

\* clientSegmentPrompt is not running
SegmentIdle ==
  /\ spPrompt = <<>>
  /\ spResult = NoSegmentedPrompt
  /\ sppc = "idle"

SegmentInit ==
  /\ spPrompt \in Strs(PromptAlphabet, MaxPromptLen)
  /\ spResult = NoSegmentedPrompt
  /\ sppc = "call"

\* the call clientSegmentPrompt(spPrompt, sessionId)
ClientSegmentPromptCall ==
  /\ sppc = "call"
  /\ \E rnd \in [1..DrawsOfSegmentPrompt(spPrompt) -> RandomLevels] :
       spResult' = ClientSegmentPrompt(spPrompt, rnd, 0)
  /\ sppc' = "done"
  /\ UNCHANGED spPrompt
  /\ UNCHANGED <<diffVars, segChangeVars, explainVars, editorVars, mainVars, formVars, authVars>>

SegmentNext == ClientSegmentPromptCall

(***************************************************************************)
(* A prompt compared with itself                                           *)
(*                                                                         *)
(* clientSegmentPrompt segments the prompt twice, computeSegmentChanges    *)
(* compares the two segment lists and computeWordDiff diffs the prompt     *)
(* against itself, as the EnhancedWhatIfEditor does for an edited prompt   *)
(* equal to the prompt of the original result.                             *)
(***************************************************************************)
\* the ids of the second segmentation are unlike those of the first
SecondIdBase == MaxPromptLen + 1

\* the second call of clientSegmentPrompt and the call of
\* computeSegmentChanges on the two segment lists
SegmentAgainAndCompare ==
  /\ sppc = "done"
  /\ scpc = "idle"
  /\ \E rnd \in [1..DrawsOfSegmentPrompt(spPrompt) -> RandomLevels] :
       LET again == ClientSegmentPrompt(spPrompt, rnd, SecondIdBase).segments
       IN  /\ originalSegments' = spResult.segments
           /\ newSegments' = again
           /\ changes' = ComputeSegmentChanges(spResult.segments, again)
  /\ scpc' = "done"
  /\ UNCHANGED <<diffVars, explainVars, segmentVars, editorVars, mainVars, formVars, authVars>>

\* computeWordDiff(prompt, prompt) up to its loop
PromptDiffStart ==
  /\ scpc = "done"
  /\ dpc = "idle"
  /\ oldText' = spPrompt
  /\ newText' = spPrompt
  /\ oldWords' = SplitWs(spPrompt)
  /\ newWords' = SplitWs(spPrompt)
  /\ i' = 0
  /\ j' = 0
  /\ diff' = <<>>
  /\ dpc' = "scan"
  /\ UNCHANGED <<segChangeVars, explainVars, segmentVars, editorVars, mainVars, formVars, authVars>>

SelfCompareNext ==
  \/ ClientSegmentPromptCall
  \/ SegmentAgainAndCompare
  \/ PromptDiffStart
  \/ WordDiffIteration
  \/ WordDiffReturn

(***************************************************************************)
(* PromptSegmentEditor                                                     *)
(*                                                                         *)
(* A value that may be null is the empty sequence (null) or a sequence of  *)
(* one element.  debounceTimer is the pending setTimeout of the            *)
(* auto-segment effect with the prompt its callback closes over.  The      *)
(* segments panel is taken to be shown (showSegments).                     *)
(***************************************************************************)
Null == <<>>

Some(x) == <<x>>

EditorAlphabet == {"a", ","}

\* the values of Math.random() (thousandths) drawn while the editor segments
EditorRandomLevels == {250}

\* the values typed into the input of a segment being edited
EditTexts == { <<>>, <<"a", ",", "a">> }

NewSegmentText == <<"n", "e", "w", " ", "s", "e", "g", "m", "e", "n", "t">>

\* the categories picked in the category select
PickedCategories == {"action"}

\* CATEGORY_CONFIG[category].color
CategoryColor(category) ==
  CASE category = "style" -> "#6366f1"
    [] category = "subject" -> "#00823b"
    [] category = "context" -> "#0071e3"
    [] category = "modifier" -> "#bf5000"
    [] category = "action" -> "#d70015"

\* segments.map(s => s.text).join(', ')
RECURSIVE JoinTexts(_)
JoinTexts(segments) ==
  IF segments = <<>> THEN <<>>
  ELSE IF Len(segments) = 1 THEN segments[1].text
  ELSE segments[1].text \o <<",", " ">> \o JoinTexts(Tail(segments))

\* the numbers of the segment ids the editor still holds
IdsInUse ==
  (IF segmentedPrompt = Null THEN {}
   ELSE {segmentedPrompt[1].segments[k].id[2] :
           k \in 1..Len(segmentedPrompt[1].segments)})
  \cup {editingSegmentId[k][2] : k \in 1..Len(editingSegmentId)}

\* generateSegmentId for the segments of a new segmentation, which replace
\* those held: a run of ids unlike the id being edited
FreshIdBase ==
  IF editingSegmentId = Null \/ editingSegmentId[1][2] >= MaxEditorPromptLen
  THEN 0
  ELSE MaxEditorPromptLen

\* generateSegmentId for one more segment: an id unlike every id held
FreshId ==
  CHOOSE n \in 0..(Cardinality(IdsInUse)) : n \notin IdsInUse

\* the segments panel is rendered
PanelShown ==
  /\ segmentedPrompt # Null
  /\ Len(segmentedPrompt[1].segments) > 0

\* PromptEffect whose effect has no cleanup that replaces a pending timer: the
\* timer scheduled for an earlier prompt stays
PromptEffectKeepsPending(newPrompt, handlerValue) ==
  IF newPrompt = prompt
  THEN /\ segmentedPrompt' = handlerValue
       /\ debounceTimer' = debounceTimer
  ELSE IF Trim(newPrompt) = <<>>
  THEN /\ segmentedPrompt' = Null
       /\ debounceTimer' = Null
  ELSE /\ segmentedPrompt' = handlerValue
       /\ debounceTimer' = IF debounceTimer = Null THEN Some(newPrompt)
                           ELSE debounceTimer

\* setPrompt(newPrompt) followed by the auto-segment effect, in a handler that
\* also called setSegmentedPrompt(handlerValue): the effect runs when the
\* prompt changed, clears the pending timer, and either resets the segmented
\* prompt (blank prompt) or schedules the segmentation of newPrompt
PromptEffect(newPrompt, handlerValue) ==
  IF newPrompt = prompt
  THEN /\ segmentedPrompt' = handlerValue
       /\ debounceTimer' = debounceTimer
  ELSE IF Trim(newPrompt) = <<>>
  THEN /\ segmentedPrompt' = Null
       /\ debounceTimer' = Null
  ELSE /\ segmentedPrompt' = handlerValue
       /\ debounceTimer' = Some(newPrompt)

EditorIdle ==
  /\ prompt = <<>>
  /\ segmentedPrompt = Null
  /\ editingSegmentId = Null
  /\ editingText = <<>>
  /\ debounceTimer = Null

\* the component after mounting
EditorInit == EditorIdle

\* the textarea's onChange: setPrompt(e.target.value)
TypePrompt ==
  \E value \in Strs(EditorAlphabet, MaxTypedLen) :
    /\ value # prompt
    /\ prompt' = value
    /\ PromptEffect(value, segmentedPrompt)
    /\ UNCHANGED <<editingSegmentId, editingText>>
    /\ UNCHANGED <<diffVars, segChangeVars, explainVars, segmentVars, mainVars, formVars, authVars>>

\* the debounce timer fires 500 ms after the last prompt change
DebounceFires ==
  /\ debounceTimer # Null
  /\ \E rnd \in [1..DrawsOfSegmentPrompt(debounceTimer[1]) -> EditorRandomLevels] :
       segmentedPrompt' =
         Some(ClientSegmentPrompt(debounceTimer[1], rnd, FreshIdBase))
  /\ debounceTimer' = Null
  /\ UNCHANGED <<prompt, editingSegmentId, editingText>>
  /\ UNCHANGED <<diffVars, segChangeVars, explainVars, segmentVars, mainVars, formVars, authVars>>

HandleEditStart ==
  /\ PanelShown
  /\ \E k \in 1..Len(segmentedPrompt[1].segments) :
       LET segment == segmentedPrompt[1].segments[k]
       IN  /\ editingSegmentId # Some(segment.id)
           /\ editingSegmentId' = Some(segment.id)
           /\ editingText' = segment.text
  /\ UNCHANGED <<prompt, segmentedPrompt, debounceTimer>>
  /\ UNCHANGED <<diffVars, segChangeVars, explainVars, segmentVars, mainVars, formVars, authVars>>

\* the input of the segment being edited is rendered
EditInputShown ==
  /\ PanelShown
  /\ \E k \in 1..Len(segmentedPrompt[1].segments) :
       editingSegmentId = Some(segmentedPrompt[1].segments[k].id)

\* the edit input's onChange: setEditingText(e.target.value)
TypeEditingText ==
  /\ EditInputShown
  /\ \E value \in EditTexts :
       /\ value # editingText
       /\ editingText' = value
  /\ UNCHANGED <<prompt, segmentedPrompt, editingSegmentId, debounceTimer>>
  /\ UNCHANGED <<diffVars, segChangeVars, explainVars, segmentVars, mainVars, formVars, authVars>>

HandleEditSave ==
  /\ EditInputShown
  /\ LET sp == segmentedPrompt[1]
         updatedSegments ==
           [k \in 1..Len(sp.segments) |->
              IF Some(sp.segments[k].id) = editingSegmentId
              THEN [sp.segments[k] EXCEPT !.text = editingText]
              ELSE sp.segments[k]]
         newPrompt == JoinTexts(updatedSegments)
     IN  /\ newPrompt = prompt \/ Len(newPrompt) <= MaxSavedPromptLen
         /\ prompt' = newPrompt
         /\ PromptEffect(newPrompt,
                         Some([originalPrompt |-> newPrompt,
                               segments |-> updatedSegments]))
  /\ editingSegmentId' = Null
  /\ editingText' = <<>>
  /\ UNCHANGED <<diffVars, segChangeVars, explainVars, segmentVars, mainVars, formVars, authVars>>

HandleEditCancel ==
  /\ EditInputShown
  /\ editingSegmentId' = Null
  /\ editingText' = <<>>
  /\ UNCHANGED <<prompt, segmentedPrompt, debounceTimer>>
  /\ UNCHANGED <<diffVars, segChangeVars, explainVars, segmentVars, mainVars, formVars, authVars>>

HandleCategoryChange ==
  /\ PanelShown
  /\ \E k \in 1..Len(segmentedPrompt[1].segments), newCategory \in PickedCategories :
       LET sp == segmentedPrompt[1]
       IN  /\ Some(sp.segments[k].id) # editingSegmentId
           /\ newCategory # sp.segments[k].category
           /\ segmentedPrompt' =
                Some([sp EXCEPT !.segments =
                  [m \in 1..Len(sp.segments) |->
                     IF sp.segments[m].id = sp.segments[k].id
                     THEN [sp.segments[m] EXCEPT !.category = newCategory,
                                                 !.color = CategoryColor(newCategory)]
                     ELSE sp.segments[m]]])
  /\ UNCHANGED <<prompt, editingSegmentId, editingText, debounceTimer>>
  /\ UNCHANGED <<diffVars, segChangeVars, explainVars, segmentVars, mainVars, formVars, authVars>>

HandleAddSegment ==
  /\ PanelShown
  /\ Len(prompt) + 2 + Len(NewSegmentText) <= MaxEditorPromptLen
  /\ Len(segmentedPrompt[1].segments) <= MaxEditorSegs
  /\ LET sp == segmentedPrompt[1]
         newSegment == [id |-> <<"seg", FreshId>>,
                        text |-> NewSegmentText,
                        type |-> "phrase",
                        startIndex |-> Len(sp.originalPrompt) + 2,
                        endIndex |-> Len(sp.originalPrompt) + 14,
                        importance |-> 500,
                        category |-> "context",
                        color |-> CategoryColor("context")]
         newPrompt == prompt \o <<",", " ">> \o NewSegmentText
     IN  /\ prompt' = newPrompt
         /\ PromptEffect(newPrompt,
                         Some([originalPrompt |-> newPrompt,
                               segments |-> Append(sp.segments, newSegment)]))
         /\ editingSegmentId' = Some(newSegment.id)
         /\ editingText' = NewSegmentText
  /\ UNCHANGED <<diffVars, segChangeVars, explainVars, segmentVars, mainVars, formVars, authVars>>

HandleRemoveSegment ==
  /\ PanelShown
  /\ \E k \in 1..Len(segmentedPrompt[1].segments) :
       LET sp == segmentedPrompt[1]
           updatedSegments ==
             SelectSeq(sp.segments, LAMBDA seg : seg.id # sp.segments[k].id)
           newPrompt == JoinTexts(updatedSegments)
       IN  /\ Some(sp.segments[k].id) # editingSegmentId
           /\ prompt' = newPrompt
           /\ PromptEffect(newPrompt,
                           Some([originalPrompt |-> newPrompt,
                                 segments |-> updatedSegments]))
  /\ UNCHANGED <<editingSegmentId, editingText>>
  /\ UNCHANGED <<diffVars, segChangeVars, explainVars, segmentVars, mainVars, formVars, authVars>>

EditorNext ==
  \/ TypePrompt
  \/ DebounceFires
  \/ HandleEditStart
  \/ TypeEditingText
  \/ HandleEditSave
  \/ HandleEditCancel
  \/ HandleCategoryChange
  \/ HandleAddSegment
  \/ HandleRemoveSegment

(***************************************************************************)
(* ExplainableMainInterface                                                *)
(*                                                                         *)
(* The fetch of a backend call answers "ok" (2xx), "http_error" (another   *)
(* status) or "network_error" (the fetch rejects).  genpc is the await     *)
(* handleGenerate is suspended at; the id and timestamp of a history entry *)
(* are left out.                                                           *)
(***************************************************************************)
OutputModes == {"text", "image", "both"}

Responses == {"ok", "http_error", "network_error"}

\* the prompts handed to handleGenerate
MainPrompts == { <<" ">>, <<"a">> }

\* the segment lists handed to handleGenerate
MainSegmentLists ==
  { <<>>, <<[id |-> <<"seg", 1>>, text |-> <<"a">>, importance |-> 500]>> }

\* textData.generated_text of a 2xx answer of /generate/text
BackendTexts == { <<>>, <<"a", ".">> }

\* the body of a 2xx answer of /explain/text
BackendExplainData ==
  { [sentence_mappings |-> <<>>, explanation_confidence |-> 0],
    [sentence_mappings |->
       <<[contributing_segments |-> <<<<"seg", 1>>>>,
          sentence_index |-> 0,
          sentence_text |-> <<"a">>,
          confidence_scores |-> <<54000, 30000>>]>>,
     explanation_confidence |-> 48000] }

\* the body of a 2xx answer of /generate/image
BackendImageData ==
  { [image_url |-> "", heatmap_data |-> <<>>],
    [image_url |-> "url", heatmap_data |-> <<[segment_id |-> <<"seg", 1>>]>>] }

\* promptSegments.find(s => s.id === id)?.text || ''
SegmentTextOf(promptSegments, id) ==
  IF \E k \in 1..Len(promptSegments) : promptSegments[k].id = id
  THEN promptSegments[CHOOSE k \in 1..Len(promptSegments) :
                        /\ promptSegments[k].id = id
                        /\ \A m \in 1..(k - 1) : promptSegments[m].id # id].text
  ELSE <<>>

\* scores.length > 0 ? Math.max(...scores) : 0.5
MaxScore(scores) ==
  IF scores = <<>> THEN ConfScale \div 2
  ELSE CHOOSE x \in {scores[k] : k \in 1..Len(scores)} :
         \A k \in 1..Len(scores) : scores[k] <= x

\* the TextExplanation built from the answer of /explain/text
BackendTextExplanation(explainData, promptSegments) ==
  [kind |-> "text",
   threw |-> FALSE,
   mappings |->
     [k \in 1..Len(explainData.sentence_mappings) |->
        LET m == explainData.sentence_mappings[k]
            first == IF m.contributing_segments = <<>> THEN <<>>
                     ELSE m.contributing_segments[1]
        IN  [segmentId |-> first,
             segmentText |-> SegmentTextOf(promptSegments, first),
             outputSentenceIndex |-> m.sentence_index,
             outputSentenceText |-> m.sentence_text,
             confidence |-> MaxScore(m.confidence_scores),
             method |-> "backend_analysis"]],
   overallConfidence |->
     [num |-> IF explainData.explanation_confidence = 0
              THEN (7 * ConfScale) \div 10
              ELSE explainData.explanation_confidence,
      den |-> 1],
   explanationMethod |-> "backend_analysis"]

\* the ImageExplanation built from the answer of /generate/image
BackendImageExplanation(imageData, promptSegments) ==
  [kind |-> "image",
   threw |-> FALSE,
   mappings |->
     [k \in 1..Len(imageData.heatmap_data) |->
        [segmentId |-> imageData.heatmap_data[k].segment_id,
         segmentText |->
           SegmentTextOf(promptSegments, imageData.heatmap_data[k].segment_id),
         confidence |-> ConfScale \div 2,
         method |-> "backend_attention"]],
   overallConfidence |-> [num |-> (7 * ConfScale) \div 10, den |-> 1],
   explanationMethod |-> "backend_attention"]

\* the message of the Error caught by handleGenerate
ErrorMessage(response) ==
  IF response = "http_error" THEN "Text generation failed (500)"
  ELSE "Failed to fetch"

\* no call of handleGenerate is running and none has run
RunIdle ==
  /\ genpc = "idle"
  /\ hgPrompt = <<>>
  /\ hgSegments = <<>>
  /\ hgOutputMode = "text"
  /\ hgNewText = <<>>
  /\ hgExplanation = Null
  /\ textResponse = "none"
  /\ explainResponse = "none"
  /\ imageResponse = "none"

MainIdle ==
  /\ outputMode = "text"
  /\ isGenerating = FALSE
  /\ generatedText = <<>>
  /\ generatedImage = ""
  /\ mainSegments = <<>>
  /\ textExplanation = Null
  /\ imageExplanation = Null
  /\ currentPrompt = <<>>
  /\ generationError = Null
  /\ lastResultRef = Null
  /\ sessionPrompts = <<>>
  /\ currentPromptIndex = -1
  /\ sessionId = 0
  /\ feedbackSubmitted = FALSE
  /\ RunIdle
  /\ editedPrompt = <<>>
  /\ modifiedResult = Null
  /\ whatIfAwaiting = Null

\* the component after mounting with a new session
MainInit == MainIdle

\* the handleGenerate awaited by handleRegenerate has returned: the rest of
\* handleRegenerate runs before any other event is handled
ResumePending == whatIfAwaiting # Null /\ genpc = "idle"

SetOutputMode ==
  /\ ~ResumePending
  /\ \E mode \in OutputModes :
       /\ mode # outputMode
       /\ outputMode' = mode
  /\ UNCHANGED <<isGenerating, generationError, lastResultRef, displayVars,
                 sessionVars, runVars, whatIfVars>>
  /\ UNCHANGED <<diffVars, segChangeVars, explainVars, segmentVars, editorVars, formVars, authVars>>

\* handleGenerate without its first line (the test of the prompt and of
\* isGenerating)
HandleGenerateBeginsUntested(promptArg, promptSegments) ==
  /\ ~ResumePending
  /\ isGenerating' = TRUE
  /\ currentPrompt' = promptArg
  /\ mainSegments' = promptSegments
  /\ generationError' = Null
  /\ hgPrompt' = promptArg
  /\ hgSegments' = promptSegments
  /\ hgOutputMode' = outputMode
  /\ hgNewText' = <<>>
  /\ hgExplanation' = Null
  /\ textResponse' = "none"
  /\ explainResponse' = "none"
  /\ imageResponse' = "none"
  /\ genpc' = "generate_text"
  /\ UNCHANGED <<outputMode, lastResultRef, generatedText, generatedImage,
                 textExplanation, imageExplanation, sessionVars>>

\* handleGenerate(promptArg, promptSegments) up to its first await
HandleGenerateBegins(promptArg, promptSegments) ==
  /\ ~ResumePending
  /\ ~(Trim(promptArg) = <<>> \/ isGenerating)
  /\ isGenerating' = TRUE
  /\ currentPrompt' = promptArg
  /\ mainSegments' = promptSegments
  /\ generationError' = Null
  /\ hgPrompt' = promptArg
  /\ hgSegments' = promptSegments
  /\ hgOutputMode' = outputMode
  /\ hgNewText' = <<>>
  /\ hgExplanation' = Null
  /\ textResponse' = "none"
  /\ explainResponse' = "none"
  /\ imageResponse' = "none"
  /\ genpc' = "generate_text"
  /\ UNCHANGED <<outputMode, lastResultRef, generatedText, generatedImage,
                 textExplanation, imageExplanation, sessionVars>>

\* the PromptSegmentEditor calls onGenerate
HandleGenerateStart ==
  /\ \E promptArg \in MainPrompts, promptSegments \in MainSegmentLists :
       HandleGenerateBegins(promptArg, promptSegments)
  /\ UNCHANGED whatIfVars
  /\ UNCHANGED <<diffVars, segChangeVars, explainVars, segmentVars, editorVars, formVars, authVars>>

\* the prompts typed into the what-if editor
WhatIfPrompts == { <<" ">>, <<"b">> }

\* originalResult?.prompt !== editedPrompt
HasChanges ==
  (IF lastResultRef = Null THEN <<>> ELSE lastResultRef[1].prompt) # editedPrompt

\* the textarea of the what-if editor, rendered once there is a result
SetEditedPrompt ==
  /\ ~ResumePending
  /\ lastResultRef # Null
  /\ \E value \in WhatIfPrompts :
       /\ value # editedPrompt
       /\ editedPrompt' = value
  /\ UNCHANGED <<modifiedResult, whatIfAwaiting>>
  /\ UNCHANGED <<outputMode, isGenerating, generationError, lastResultRef,
                 displayVars, sessionVars, runVars>>
  /\ UNCHANGED <<diffVars, segChangeVars, explainVars, segmentVars, editorVars, formVars, authVars>>

\* editedSegments: [] for a blank prompt, else the segments of
\* clientSegmentPrompt(editedPrompt, sessionId)
EditedSegments(rnd) ==
  IF Trim(editedPrompt) = <<>> THEN <<>>
  ELSE ClientSegmentPrompt(editedPrompt, rnd, 0).segments

\* handleRegenerate up to the first await of the handleGenerate it calls
HandleRegenerate ==
  /\ lastResultRef # Null
  /\ HasChanges
  /\ ~(Trim(editedPrompt) = <<>> \/ isGenerating)
  /\ \E rnd \in [1..DrawsOfSegmentPrompt(editedPrompt) -> EditorRandomLevels] :
       /\ HandleGenerateBegins(editedPrompt, EditedSegments(rnd))
       /\ whatIfAwaiting' = Some([prompt |-> editedPrompt,
                                  segments |-> EditedSegments(rnd)])
  /\ UNCHANGED <<editedPrompt, modifiedResult>>
  /\ UNCHANGED <<diffVars, segChangeVars, explainVars, segmentVars, editorVars, formVars, authVars>>

\* handleReset
HandleReset ==
  /\ ~ResumePending
  /\ lastResultRef # Null
  /\ HasChanges
  /\ lastResultRef[1].prompt # <<>>
  /\ editedPrompt' = lastResultRef[1].prompt
  /\ modifiedResult' = Null
  /\ UNCHANGED whatIfAwaiting
  /\ UNCHANGED <<outputMode, isGenerating, generationError, lastResultRef,
                 displayVars, sessionVars, runVars>>
  /\ UNCHANGED <<diffVars, segChangeVars, explainVars, segmentVars, editorVars, formVars, authVars>>

\* the effect on [originalResult?.prompt] of the what-if editor when the
\* result it is given becomes newResult
OriginalResultEffect(newResult) ==
  LET before == IF lastResultRef = Null THEN <<>> ELSE lastResultRef[1].prompt
      after == IF newResult = Null THEN <<>> ELSE newResult[1].prompt
  IN  editedPrompt' = IF after # before /\ after # <<>> THEN after
                      ELSE editedPrompt

\* handleGenerate returns: its arguments and locals are gone (the answers of
\* its fetches are kept until the next call)
LocalsDropped ==
  /\ hgPrompt' = <<>>
  /\ hgSegments' = <<>>
  /\ hgOutputMode' = "text"
  /\ hgNewText' = <<>>
  /\ hgExplanation' = Null

\* a catch block that also forgot the stored result
CatchAndFinallyForgets(response) ==
  /\ LocalsDropped
  /\ generationError' = Some(ErrorMessage(response))
  /\ generatedText' = <<>>
  /\ generatedImage' = ""
  /\ textExplanation' = Null
  /\ imageExplanation' = Null
  /\ isGenerating' = FALSE
  /\ genpc' = "idle"
  /\ lastResultRef' = Null
  /\ UNCHANGED <<sessionVars, whatIfVars>>

\* the catch and finally blocks of handleGenerate
CatchAndFinally(response) ==
  /\ LocalsDropped
  /\ generationError' = Some(ErrorMessage(response))
  /\ generatedText' = <<>>
  /\ generatedImage' = ""
  /\ textExplanation' = Null
  /\ imageExplanation' = Null
  /\ isGenerating' = FALSE
  /\ genpc' = "idle"
  /\ UNCHANGED <<lastResultRef, sessionVars, whatIfVars>>

\* the end of the try block and the finally block: lastResultRef.current,
\* session.addPrompt and setIsGenerating(false)
StoreAndFinally(newTextValue, explanation, imageUrl, imgExplanation) ==
  /\ lastResultRef' = Some([prompt |-> hgPrompt,
                            segments |-> hgSegments,
                            output |-> newTextValue,
                            explanation |-> explanation,
                            imageUrl |-> Some(imageUrl)])
  /\ OriginalResultEffect(Some([prompt |-> hgPrompt]))
  /\ UNCHANGED <<modifiedResult, whatIfAwaiting>>
  /\ sessionPrompts' =
       Append(sessionPrompts,
              [prompt |-> hgPrompt,
               segments |-> hgSegments,
               textOutput |-> newTextValue,
               imageOutput |-> IF hgOutputMode # "text"
                               THEN Some(imageUrl) ELSE Null,
               textExplanation |-> explanation,
               imageExplanation |-> IF hgOutputMode # "text"
                                    THEN imgExplanation ELSE Null])
  /\ currentPromptIndex' = Len(sessionPrompts)
  /\ UNCHANGED <<sessionId, feedbackSubmitted>>
  /\ isGenerating' = FALSE
  /\ genpc' = "idle"
  /\ LocalsDropped

\* the fetch of /generate/text settles
GenerateTextResponds ==
  /\ genpc = "generate_text"
  /\ \E response \in Responses :
       /\ response = "ok" => Len(sessionPrompts) < MaxHistory
       /\ textResponse' = response
       /\ IF response = "ok"
          THEN \E newTextValue \in BackendTexts :
                 /\ generatedText' = newTextValue
                 /\ hgNewText' = newTextValue
                 /\ genpc' = "explain_text"
                 /\ UNCHANGED <<isGenerating, generationError, lastResultRef,
                                generatedImage, textExplanation,
                                imageExplanation, sessionVars, whatIfVars>>
                 /\ UNCHANGED <<hgPrompt, hgSegments, hgOutputMode,
                                hgExplanation>>
          ELSE CatchAndFinally(response)
  /\ UNCHANGED <<outputMode, mainSegments, currentPrompt, explainResponse,
                 imageResponse>>
  /\ UNCHANGED <<diffVars, segChangeVars, explainVars, segmentVars, editorVars, formVars, authVars>>

\* the fetch of /explain/text settles
ExplainTextResponds ==
  /\ genpc = "explain_text"
  /\ \E response \in Responses :
       /\ explainResponse' = response
       /\ IF response = "network_error"
          THEN CatchAndFinally(response)
          ELSE \E explainData \in BackendExplainData :
                 LET explanation ==
                       IF response = "ok"
                       THEN Some(BackendTextExplanation(explainData, hgSegments))
                       ELSE Null
                 IN  /\ textExplanation' = explanation
                     /\ IF hgOutputMode = "image" \/ hgOutputMode = "both"
                        THEN /\ genpc' = "generate_image"
                             /\ hgExplanation' = explanation
                             /\ UNCHANGED <<isGenerating, lastResultRef,
                                            sessionVars, whatIfVars>>
                             /\ UNCHANGED <<hgPrompt, hgSegments, hgOutputMode,
                                            hgNewText>>
                        ELSE StoreAndFinally(hgNewText, explanation, "", Null)
                     /\ UNCHANGED <<generationError, generatedText,
                                    generatedImage, imageExplanation>>
  /\ UNCHANGED <<outputMode, mainSegments, currentPrompt, textResponse,
                 imageResponse>>
  /\ UNCHANGED <<diffVars, segChangeVars, explainVars, segmentVars, editorVars, formVars, authVars>>

\* the fetch of /generate/image settles
GenerateImageResponds ==
  /\ genpc = "generate_image"
  /\ \E response \in Responses :
       /\ imageResponse' = response
       /\ CASE response = "ok" ->
                 \E imageData \in BackendImageData :
                   LET imgExplanation ==
                         Some(BackendImageExplanation(imageData, hgSegments))
                   IN  /\ generatedImage' = imageData.image_url
                       /\ imageExplanation' = imgExplanation
                       /\ StoreAndFinally(hgNewText, hgExplanation,
                                          imageData.image_url, imgExplanation)
                       /\ UNCHANGED <<generationError, generatedText,
                                      textExplanation>>
            [] response = "http_error" ->
                 LET imgExplanation == Some(ClientExplainImage(hgSegments))
                 IN  /\ imageExplanation' = imgExplanation
                     /\ StoreAndFinally(hgNewText, hgExplanation, "",
                                        imgExplanation)
                     /\ UNCHANGED <<generationError, generatedText,
                                    generatedImage, textExplanation>>
            [] response = "network_error" -> CatchAndFinally(response)
  /\ UNCHANGED <<outputMode, mainSegments, currentPrompt, textResponse,
                 explainResponse>>
  /\ UNCHANGED <<diffVars, segChangeVars, explainVars, segmentVars, editorVars, formVars, authVars>>

\* entry.imageOutput || ''
OrEmptyString(optional) == IF optional = Null THEN "" ELSE optional[1]

\* the rest of handleRegenerate once the awaited handleGenerate has returned:
\* setModifiedResult with explanation clientExplainText(editedSegments, '')
RegenerateResumes ==
  /\ ResumePending
  /\ modifiedResult' =
       Some([prompt |-> whatIfAwaiting[1].prompt,
             segments |-> whatIfAwaiting[1].segments,
             output |-> <<>>,
             explanation |->
               ClientExplainText(whatIfAwaiting[1].segments, <<>>, <<>>)])
  /\ whatIfAwaiting' = Null
  /\ UNCHANGED editedPrompt
  /\ UNCHANGED <<outputMode, isGenerating, generationError, lastResultRef,
                 displayVars, sessionVars, runVars>>
  /\ UNCHANGED <<diffVars, segChangeVars, explainVars, segmentVars, editorVars, formVars, authVars>>

LoadFromHistory ==
  /\ ~ResumePending
  /\ \E index \in 0..(Len(sessionPrompts) - 1) :
       LET entry == sessionPrompts[index + 1]
       IN  /\ currentPrompt' = entry.prompt
           /\ mainSegments' = entry.segments
           /\ generatedText' = entry.textOutput
           /\ generatedImage' = OrEmptyString(entry.imageOutput)
           /\ textExplanation' = entry.textExplanation
           /\ imageExplanation' = entry.imageExplanation
           /\ lastResultRef' = Some([prompt |-> entry.prompt,
                                     segments |-> entry.segments,
                                     output |-> entry.textOutput,
                                     explanation |-> entry.textExplanation,
                                     imageUrl |-> entry.imageOutput])
           /\ OriginalResultEffect(Some([prompt |-> entry.prompt]))
  /\ UNCHANGED <<modifiedResult, whatIfAwaiting>>
  /\ UNCHANGED <<outputMode, isGenerating, generationError, sessionVars, runVars>>
  /\ UNCHANGED <<diffVars, segChangeVars, explainVars, segmentVars, editorVars, formVars, authVars>>

\* the dismiss button of the error banner
DismissError ==
  /\ ~ResumePending
  /\ generationError # Null
  /\ generationError' = Null
  /\ UNCHANGED <<outputMode, isGenerating, lastResultRef, displayVars,
                 sessionVars, runVars, whatIfVars>>
  /\ UNCHANGED <<diffVars, segChangeVars, explainVars, segmentVars, editorVars, formVars, authVars>>

\* session.clearHistory()
ClearHistory ==
  /\ ~ResumePending
  /\ sessionPrompts # <<>>
  /\ sessionPrompts' = <<>>
  /\ currentPromptIndex' = -1
  /\ UNCHANGED <<sessionId, feedbackSubmitted>>
  /\ UNCHANGED <<outputMode, isGenerating, generationError, lastResultRef,
                 displayVars, runVars, whatIfVars>>
  /\ UNCHANGED <<diffVars, segChangeVars, explainVars, segmentVars, editorVars, formVars, authVars>>

MainNext ==
  \/ SetOutputMode
  \/ HandleGenerateStart
  \/ GenerateTextResponds
  \/ ExplainTextResponds
  \/ GenerateImageResponds
  \/ LoadFromHistory
  \/ DismissError
  \/ SetEditedPrompt
  \/ HandleRegenerate
  \/ RegenerateResumes
  \/ HandleReset
  \/ ClearHistory

(***************************************************************************)
(* The Generate button of the PromptSegmentEditor, whose onGenerate is the  *)
(* handleGenerate of ExplainableMainInterface                              *)
(***************************************************************************)
\* segmentedPrompt?.segments || []
SegmentsOrEmpty ==
  IF segmentedPrompt = Null THEN <<>> ELSE segmentedPrompt[1].segments

\* the button is enabled unless isGenerating || !prompt.trim(); its handler
\* returns for a blank prompt and else calls onGenerate(prompt, segments)
EditorHandleGenerate ==
  /\ ~(isGenerating \/ Trim(prompt) = <<>>)
  /\ Trim(prompt) # <<>>
  /\ HandleGenerateBegins(prompt, SegmentsOrEmpty)
  /\ UNCHANGED <<whatIfVars, editorVars>>
  /\ UNCHANGED <<diffVars, segChangeVars, explainVars, segmentVars, formVars,
                 authVars>>

\* typing, the debounce timer and the Generate button, and the answers that
\* end the run a click started (the output mode stays 'text')
EditorGenerateNext ==
  \/ TypePrompt
  \/ DebounceFires
  \/ EditorHandleGenerate
  \/ GenerateTextResponds
  \/ ExplainTextResponds

(***************************************************************************)
(* useSession (useSession.ts), driven through the functions it returns     *)
(***************************************************************************)
\* the entries handed to addPrompt
SessionEntries ==
  { [prompt |-> p, segments |-> <<>>, textOutput |-> <<>>,
     imageOutput |-> Null, textExplanation |-> Null,
     imageExplanation |-> Null] : p \in { <<"a">>, <<"b">> } }

\* the updates handed to updateCurrentPrompt
SessionUpdates == { [prompt |-> <<"c">>], [textOutput |-> <<"c", ".">>] }

\* the indices handed to selectPrompt
SelectedIndices == (-MaxSessionPrompts - 1)..(MaxSessionPrompts + 1)

\* { ...entry, ...updates }
Spread(entry, updates) ==
  [f \in DOMAIN entry \cup DOMAIN updates |->
     IF f \in DOMAIN updates THEN updates[f] ELSE entry[f]]

\* the index as given, without the clamping
UnclampedIndex(index, prompts) == index

\* Math.max(-1, Math.min(index, prev.prompts.length - 1))
ClampedIndex(index, prompts) == Max(-1, Min(index, Len(prompts) - 1))

SessionOthersUnchanged ==
  /\ UNCHANGED <<outputMode, isGenerating, generationError, lastResultRef,
                 displayVars, runVars, whatIfVars>>
  /\ UNCHANGED <<diffVars, segChangeVars, explainVars, segmentVars, editorVars,
                 formVars, authVars>>

AddPrompt ==
  /\ Len(sessionPrompts) < MaxSessionPrompts
  /\ \E entry \in SessionEntries :
       /\ sessionPrompts' = Append(sessionPrompts, entry)
       /\ currentPromptIndex' = Len(sessionPrompts')  - 1
  /\ UNCHANGED <<sessionId, feedbackSubmitted>>
  /\ SessionOthersUnchanged

UpdateCurrentPrompt ==
  /\ \E updates \in SessionUpdates :
       IF currentPromptIndex < 0
       THEN UNCHANGED sessionPrompts
       ELSE sessionPrompts' =
              [sessionPrompts EXCEPT ![currentPromptIndex + 1] =
                 Spread(@, updates)]
  /\ UNCHANGED <<currentPromptIndex, sessionId, feedbackSubmitted>>
  /\ SessionOthersUnchanged

SelectPrompt ==
  /\ \E index \in SelectedIndices :
       currentPromptIndex' = ClampedIndex(index, sessionPrompts)
  /\ UNCHANGED <<sessionPrompts, sessionId, feedbackSubmitted>>
  /\ SessionOthersUnchanged

SetFeedbackSubmitted ==
  /\ \E submitted \in BOOLEAN : feedbackSubmitted' = submitted
  /\ UNCHANGED <<sessionPrompts, currentPromptIndex, sessionId>>
  /\ SessionOthersUnchanged

ResetSession ==
  /\ sessionId < MaxSessionResets
  /\ sessionId' = sessionId + 1
  /\ sessionPrompts' = <<>>
  /\ currentPromptIndex' = -1
  /\ feedbackSubmitted' = FALSE
  /\ SessionOthersUnchanged

SessionNext ==
  \/ AddPrompt
  \/ UpdateCurrentPrompt
  \/ SelectPrompt
  \/ ClearHistory
  \/ SetFeedbackSubmitted
  \/ ResetSession

(***************************************************************************)
(* FeedbackForm (FeedbackForm.tsx)                                         *)
(*                                                                         *)
(* responses maps a question id to Null (undefined) or Some(number).  A    *)
(* rating is the fraction num / den.  feedbackInFlight holds the argument  *)
(* of the onSubmit call that handleSubmit awaits; handleSubmitCalls counts *)
(* the runs of handleSubmit.                                               *)
(***************************************************************************)
SurveyQuestions ==
  << [id |-> "trust_ai_output", type |-> "likert", category |-> "trust",
      required |-> TRUE],
     [id |-> "understand_mapping", type |-> "likert",
      category |-> "transparency", required |-> TRUE],
     [id |-> "explanation_helpful", type |-> "likert",
      category |-> "transparency", required |-> TRUE],
     [id |-> "output_quality", type |-> "likert", category |-> "quality",
      required |-> TRUE],
     [id |-> "confusion_reduced", type |-> "likert",
      category |-> "transparency", required |-> TRUE],
     [id |-> "would_use_again", type |-> "binary", category |-> "usability",
      required |-> FALSE] >>

QuestionIds == { SurveyQuestions[k].id : k \in 1..Len(SurveyQuestions) }

\* the options of likertLabels that get clicked (the lowest and the highest)
LikertChoices == {1, 5}

\* the texts typed into the comments box
CommentTexts == { <<" ">>, <<"a">> }

\* surveyQuestions.length + 2: the questions, the comments, the consent
TotalSteps == Len(SurveyQuestions) + 2

ConsentError == "Please provide consent to submit your feedback."

SubmitError == "Failed to submit feedback. Please try again."

\* a form on which no step is ever incomplete
IsCurrentStepCompleteAlways == TRUE

IsCurrentStepComplete ==
  IF currentStep < Len(SurveyQuestions)
  THEN LET question == SurveyQuestions[currentStep + 1]
       IN  ~question.required \/ responses[question.id] # Null
  ELSE IF currentStep = Len(SurveyQuestions) THEN TRUE
  ELSE consentGiven

\* surveyQuestions.filter(q => q.category === category).map(q => q.id)
RECURSIVE IdsOfCategory(_, _)
IdsOfCategory(category, k) ==
  IF k > Len(SurveyQuestions) THEN <<>>
  ELSE (IF SurveyQuestions[k].category = category
        THEN <<SurveyQuestions[k].id>> ELSE <<>>)
       \o IdsOfCategory(category, k + 1)

\* ids.map(id => responses[id]).filter(v => typeof v === 'number')
RECURSIVE NumberValues(_)
NumberValues(ids) ==
  IF ids = <<>> THEN <<>>
  ELSE (IF responses[Head(ids)] # Null THEN <<responses[Head(ids)][1]>> ELSE <<>>)
       \o NumberValues(Tail(ids))

RECURSIVE SumOf(_)
SumOf(values) == IF values = <<>> THEN 0 ELSE Head(values) + SumOf(Tail(values))

\* avg of calculateMetrics: the mean of the recorded values, 3 without any
Avg(ids) ==
  LET values == NumberValues(ids)
  IN  IF Len(values) > 0
      THEN [num |-> SumOf(values), den |-> Len(values)]
      ELSE [num |-> 3, den |-> 1]

\* Number(responses['confusion_reduced']) || 3
UsefulnessScore ==
  IF responses["confusion_reduced"] = Null \/ responses["confusion_reduced"][1] = 0
  THEN [num |-> 3, den |-> 1]
  ELSE [num |-> responses["confusion_reduced"][1], den |-> 1]

\* the scores of calculateMetrics (sessionId and timeSpentSeconds left out)
CalculateMetrics ==
  [trustScore |-> Avg(IdsOfCategory("trust", 1)),
   transparencyScore |-> Avg(IdsOfCategory("transparency", 1)),
   understandingScore |-> Avg(IdsOfCategory("quality", 1)),
   usefulnessScore |-> UsefulnessScore]

\* the FeedbackSubmission built by handleSubmit (sessionId left out)
Feedback ==
  LET metrics == CalculateMetrics
  IN  [ratings |-> [transparency |-> metrics.transparencyScore,
                    understanding |-> metrics.understandingScore,
                    trust |-> metrics.trustScore,
                    usefulness |-> metrics.usefulnessScore],
       comments |-> IF Trim(comments) = <<>> THEN Null ELSE Some(Trim(comments)),
       consent |-> consentGiven]

\* the useState initial values
FormInit ==
  /\ currentStep = 0
  /\ responses = [id \in QuestionIds |-> Null]
  /\ comments = <<>>
  /\ consentGiven = FALSE
  /\ isSubmitting = FALSE
  /\ isSubmitted = FALSE
  /\ error = Null
  /\ feedbackInFlight = Null
  /\ handleSubmitCalls = 0

\* the form is left untouched
FormIdle == FormInit

\* the survey is rendered (not the thank-you card)
FormShown == ~isSubmitted

\* a click on an option of a likert question
HandleLikertResponse ==
  /\ FormShown
  /\ currentStep < Len(SurveyQuestions)
  /\ SurveyQuestions[currentStep + 1].type = "likert"
  /\ \E value \in LikertChoices :
       responses' =
         [responses EXCEPT ![SurveyQuestions[currentStep + 1].id] = Some(value)]
  /\ UNCHANGED <<currentStep, comments, consentGiven, isSubmitting, isSubmitted,
                 error, feedbackInFlight, handleSubmitCalls>>
  /\ UNCHANGED <<diffVars, segChangeVars, explainVars, segmentVars, editorVars,
                 mainVars, authVars>>

\* a click on Yes or No of a binary question
HandleBinaryResponse ==
  /\ FormShown
  /\ currentStep < Len(SurveyQuestions)
  /\ SurveyQuestions[currentStep + 1].type = "binary"
  /\ \E value \in BOOLEAN :
       responses' =
         [responses EXCEPT
            ![SurveyQuestions[currentStep + 1].id] = Some(IF value THEN 1 ELSE 0)]
  /\ UNCHANGED <<currentStep, comments, consentGiven, isSubmitting, isSubmitted,
                 error, feedbackInFlight, handleSubmitCalls>>
  /\ UNCHANGED <<diffVars, segChangeVars, explainVars, segmentVars, editorVars,
                 mainVars, authVars>>

\* onChange of the comments textarea (shown on the comments step)
SetComments ==
  /\ FormShown
  /\ currentStep = Len(SurveyQuestions)
  /\ \E text \in CommentTexts : comments' = text
  /\ UNCHANGED <<currentStep, responses, consentGiven, isSubmitting, isSubmitted,
                 error, feedbackInFlight, handleSubmitCalls>>
  /\ UNCHANGED <<diffVars, segChangeVars, explainVars, segmentVars, editorVars,
                 mainVars, authVars>>

\* a click on the consent box (shown on the consent step)
ToggleConsent ==
  /\ FormShown
  /\ currentStep > Len(SurveyQuestions)
  /\ consentGiven' = ~consentGiven
  /\ UNCHANGED <<currentStep, responses, comments, isSubmitting, isSubmitted,
                 error, feedbackInFlight, handleSubmitCalls>>
  /\ UNCHANGED <<diffVars, segChangeVars, explainVars, segmentVars, editorVars,
                 mainVars, authVars>>

\* a click on Next (rendered before the last step, disabled on an incomplete
\* step)
GoNext ==
  /\ FormShown
  /\ currentStep < TotalSteps - 1
  /\ IsCurrentStepComplete
  /\ currentStep' = IF currentStep < TotalSteps - 1
                    THEN currentStep + 1 ELSE currentStep
  /\ UNCHANGED <<responses, comments, consentGiven, isSubmitting, isSubmitted,
                 error, feedbackInFlight, handleSubmitCalls>>
  /\ UNCHANGED <<diffVars, segChangeVars, explainVars, segmentVars, editorVars,
                 mainVars, authVars>>

\* a click on Back (disabled on step 0)
GoBack ==
  /\ FormShown
  /\ currentStep # 0
  /\ currentStep' = IF currentStep > 0 THEN currentStep - 1 ELSE currentStep
  /\ UNCHANGED <<responses, comments, consentGiven, isSubmitting, isSubmitted,
                 error, feedbackInFlight, handleSubmitCalls>>
  /\ UNCHANGED <<diffVars, segChangeVars, explainVars, segmentVars, editorVars,
                 mainVars, authVars>>

\* HandleSubmit without the consent test at its head
HandleSubmitUnchecked ==
  /\ handleSubmitCalls' = handleSubmitCalls + 1
  /\ isSubmitting' = TRUE
  /\ error' = Null
  /\ feedbackInFlight' = Some(Feedback)
  /\ UNCHANGED <<currentStep, responses, comments, consentGiven, isSubmitted>>
  /\ UNCHANGED <<diffVars, segChangeVars, explainVars, segmentVars, editorVars,
                 mainVars, authVars>>

\* handleSubmit up to the await of onSubmit(feedback)
HandleSubmit ==
  /\ handleSubmitCalls' = handleSubmitCalls + 1
  /\ IF ~consentGiven
     THEN /\ error' = Some(ConsentError)
          /\ UNCHANGED <<isSubmitting, feedbackInFlight>>
     ELSE /\ isSubmitting' = TRUE
          /\ error' = Null
          /\ feedbackInFlight' = Some(Feedback)
  /\ UNCHANGED <<currentStep, responses, comments, consentGiven, isSubmitted>>
  /\ UNCHANGED <<diffVars, segChangeVars, explainVars, segmentVars, editorVars,
                 mainVars, authVars>>

\* a click on Submit Feedback (rendered on the last step, disabled without
\* consent and while submitting)
SubmitClick ==
  /\ FormShown
  /\ currentStep >= TotalSteps - 1
  /\ consentGiven
  /\ ~isSubmitting
  /\ handleSubmitCalls < MaxSubmitCalls
  /\ HandleSubmit

\* handleSubmit reached without consent, past the disabled attribute of the
\* button (the case the test at the head of the handler is written for)
SubmitAttempt ==
  /\ FormShown
  /\ currentStep >= TotalSteps - 1
  /\ ~consentGiven
  /\ ~isSubmitting
  /\ handleSubmitCalls < MaxSubmitCalls
  /\ HandleSubmit

\* the awaited onSubmit promise settles: the rest of try, catch and finally
OnSubmitSettles ==
  /\ feedbackInFlight # Null
  /\ \E outcome \in {"resolved", "rejected"} :
       IF outcome = "resolved"
       THEN /\ isSubmitted' = TRUE
            /\ UNCHANGED error
       ELSE /\ error' = Some(SubmitError)
            /\ UNCHANGED isSubmitted
  /\ isSubmitting' = FALSE
  /\ feedbackInFlight' = Null
  /\ UNCHANGED <<currentStep, responses, comments, consentGiven,
                 handleSubmitCalls>>
  /\ UNCHANGED <<diffVars, segChangeVars, explainVars, segmentVars, editorVars,
                 mainVars, authVars>>

FormNext ==
  \/ HandleLikertResponse
  \/ HandleBinaryResponse
  \/ SetComments
  \/ ToggleConsent
  \/ GoNext
  \/ GoBack
  \/ SubmitClick
  \/ SubmitAttempt
  \/ OnSubmitSettles

(***************************************************************************)
(* AuthProvider (AuthContext) and AppContent (App.tsx)                     *)
(***************************************************************************)
TOKEN_KEY == "promptlens_token"

USER_KEY == "promptlens_user"

\* access tokens the backend hands out
Tokens == {"t1", "t2"}

\* user objects of the backend's answers (AuthResponse['user'])
ApiUsers ==
  { [id |-> "u1", name |-> "Ann", avatar_url |-> "a.png"],
    [id |-> "u2", name |-> "Bob", avatar_url |-> "b.png"] }

TransformUser(apiUser) ==
  [id |-> apiUser.id, name |-> apiUser.name, avatarUrl |-> apiUser.avatar_url]

Pages == {"main", "dashboard", "features", "documentation", "support", "auth"}

\* the pages AppContent renders below the Navigation
ProtectedPages == Pages \ {"auth"}

\* the calls of the context that sign a user in
SignInKinds == {"login", "register", "loginWithGoogle"}

\* the value useState starts from
InitialAuthState ==
  [user |-> Null, token |-> Null, isAuthenticated |-> FALSE, isLoading |-> TRUE]

\* the state every failure branch and logout set
SignedOutState ==
  [user |-> Null, token |-> Null, isAuthenticated |-> FALSE, isLoading |-> FALSE]

SignedInState(user, token) ==
  [user |-> Some(user), token |-> Some(token), isAuthenticated |-> TRUE,
   isLoading |-> FALSE]

EmptyStorage == [k \in {TOKEN_KEY, USER_KEY} |-> Null]

\* both entries as login / register / loginWithGoogle write them; the user
\* entry is the serialised user, which the code only tests for presence
SignedInStorage(user, token) ==
  [k \in {TOKEN_KEY, USER_KEY} |-> IF k = TOKEN_KEY THEN Some(token) ELSE Some(user)]

\* what AppContent returns without the test of isAuthenticated (lines 80-89)
RenderedUnguarded(st, page) ==
  IF st.isLoading THEN "loading"
  ELSE IF page \in ProtectedPages THEN page
  ELSE "none"

\* what AppContent returns: the loading screen, the AuthPage alone, or the
\* Navigation with the content of currentPage ("none" when currentPage is
\* 'auth', for which the authenticated branch renders no content)
Rendered(st, page) ==
  IF st.isLoading THEN "loading"
  ELSE IF ~st.isAuthenticated THEN "auth"
  ELSE IF page \in ProtectedPages THEN page
  ELSE "none"

\* the sign-in calls not answered yet, and those whose onSuccess timeout runs
PendingSignIns ==
  authRequests["login"] + authRequests["register"]
    + authRequests["loginWithGoogle"] + successTimers

AuthInit ==
  /\ state = InitialAuthState
  /\ \/ localStorage = EmptyStorage
     \/ \E a \in ApiUsers, t \in Tokens :
          localStorage = SignedInStorage(TransformUser(a), t)
  /\ initpc = "mount"
  /\ storedToken = Null
  /\ authRequests = [k \in SignInKinds \cup {"refreshUser"} |-> 0]
  /\ currentPage = "main"
  /\ successTimers = 0

AuthIdle ==
  /\ state = InitialAuthState
  /\ localStorage = EmptyStorage
  /\ initpc = "mount"
  /\ storedToken = Null
  /\ authRequests = [k \in SignInKinds \cup {"refreshUser"} |-> 0]
  /\ currentPage = "main"
  /\ successTimers = 0

OthersUnchangedByAuth ==
  UNCHANGED <<diffVars, segChangeVars, explainVars, segmentVars, editorVars,
              mainVars, formVars>>

\* initAuth up to its await (or to its end when an entry is missing)
InitAuthBegins ==
  /\ initpc = "mount"
  /\ IF localStorage[TOKEN_KEY] # Null /\ localStorage[USER_KEY] # Null
     THEN /\ initpc' = "fetching"
          /\ storedToken' = localStorage[TOKEN_KEY]
          /\ UNCHANGED state
     ELSE /\ initpc' = "done"
          /\ state' = [state EXCEPT !.isLoading = FALSE]
          /\ UNCHANGED storedToken
  /\ UNCHANGED <<localStorage, authRequests, currentPage, successTimers>>
  /\ OthersUnchangedByAuth

\* GET /auth/me of initAuth is answered, or fetch / json throws
InitAuthResponds ==
  /\ initpc = "fetching"
  /\ \E outcome \in {"ok", "not_ok", "throws"}, userData \in ApiUsers :
       CASE outcome = "ok" ->
              /\ state' = SignedInState(TransformUser(userData), storedToken[1])
              /\ UNCHANGED localStorage
         [] outcome = "not_ok" ->
              /\ localStorage' = EmptyStorage
              /\ state' = SignedOutState
         [] outcome = "throws" ->
              /\ state' = SignedOutState
              /\ UNCHANGED localStorage
  /\ initpc' = "done"
  /\ storedToken' = Null
  /\ UNCHANGED <<authRequests, currentPage, successTimers>>
  /\ OthersUnchangedByAuth

\* the AuthPage calls login, register or loginWithGoogle: the POST is sent
SignInBegins(kind) ==
  /\ Rendered(state, currentPage) = "auth"
  /\ PendingSignIns < MaxAuthCalls
  /\ authRequests' = [authRequests EXCEPT ![kind] = @ + 1]
  /\ UNCHANGED <<state, localStorage, initpc, storedToken, currentPage,
                 successTimers>>
  /\ OthersUnchangedByAuth

\* the POST is answered: with 200 both entries are stored and the state is
\* set, and the AuthPage that awaited the call starts its 500 ms timeout for
\* onSuccess; otherwise the call returns success: false
SignInResponds(kind) ==
  /\ authRequests[kind] > 0
  /\ authRequests' = [authRequests EXCEPT ![kind] = @ - 1]
  /\ \E outcome \in {"ok", "not_ok", "throws"}, a \in ApiUsers, t \in Tokens :
       IF outcome = "ok"
       THEN /\ localStorage' = SignedInStorage(TransformUser(a), t)
            /\ state' = SignedInState(TransformUser(a), t)
            /\ successTimers' = successTimers + 1
       ELSE UNCHANGED <<localStorage, state, successTimers>>
  /\ UNCHANGED <<initpc, storedToken, currentPage>>
  /\ OthersUnchangedByAuth

Login == SignInBegins("login")

LoginResponds == SignInResponds("login")

Register == SignInBegins("register")

RegisterResponds == SignInResponds("register")

LoginWithGoogle == SignInBegins("loginWithGoogle")

LoginWithGoogleResponds == SignInResponds("loginWithGoogle")

Logout ==
  /\ localStorage' = EmptyStorage
  /\ state' = SignedOutState

\* the Sign Out button of the Navigation, shown while isAuthenticated && user
SignOutClick ==
  /\ Rendered(state, currentPage) \notin {"loading", "auth"}
  /\ state.isAuthenticated /\ state.user # Null
  /\ Logout
  /\ UNCHANGED <<initpc, storedToken, authRequests, currentPage, successTimers>>
  /\ OthersUnchangedByAuth

\* refreshUser up to its await; without a stored token it returns at once.
\* No component calls refreshUser: a consumer of the context may call it in
\* any render.
RefreshUser ==
  /\ localStorage[TOKEN_KEY] # Null
  /\ authRequests["refreshUser"] < MaxRefreshCalls
  /\ authRequests' = [authRequests EXCEPT !["refreshUser"] = @ + 1]
  /\ UNCHANGED <<state, localStorage, initpc, storedToken, currentPage,
                 successTimers>>
  /\ OthersUnchangedByAuth

\* GET /auth/me of refreshUser is answered, or fetch / json throws
RefreshUserResponds ==
  /\ authRequests["refreshUser"] > 0
  /\ authRequests' = [authRequests EXCEPT !["refreshUser"] = @ - 1]
  /\ \E outcome \in {"ok", "not_ok", "throws"}, userData \in ApiUsers :
       IF outcome = "ok"
       THEN /\ localStorage' =
                 [localStorage EXCEPT ![USER_KEY] = Some(TransformUser(userData))]
            /\ state' = [state EXCEPT !.user = Some(TransformUser(userData))]
       ELSE UNCHANGED <<localStorage, state>>
  /\ UNCHANGED <<initpc, storedToken, currentPage, successTimers>>
  /\ OthersUnchangedByAuth

HandleNavigate(page) ==
  IF ~state.isAuthenticated /\ page # "auth"
  THEN currentPage' = "auth"
  ELSE currentPage' = page

\* a click in the Navigation, which AppContent renders in its last branch:
\* the logo, a menu item, or Sign In (shown unless isAuthenticated && user)
NavigationClick ==
  /\ Rendered(state, currentPage) \notin {"loading", "auth"}
  /\ \E page \in Pages :
       /\ page = "auth" => ~(state.isAuthenticated /\ state.user # Null)
       /\ HandleNavigate(page)
  /\ UNCHANGED <<state, localStorage, initpc, storedToken, authRequests,
                 successTimers>>
  /\ OthersUnchangedByAuth

\* handleNavigate called in a render without an authenticated user: no
\* element of that render holds it, the call is the function's own
NavigateSignedOut ==
  /\ ~state.isLoading
  /\ ~state.isAuthenticated
  /\ \E page \in Pages : HandleNavigate(page)
  /\ UNCHANGED <<state, localStorage, initpc, storedToken, authRequests,
                 successTimers>>
  /\ OthersUnchangedByAuth

\* the effect on [isAuthenticated, isLoading, currentPage]
RedirectEffect ==
  /\ ~state.isLoading /\ ~state.isAuthenticated /\ currentPage # "auth"
  /\ currentPage' = "auth"
  /\ UNCHANGED <<state, localStorage, initpc, storedToken, authRequests,
                 successTimers>>
  /\ OthersUnchangedByAuth

\* a timeout of the AuthPage fires: onSuccess is handleAuthSuccess
HandleAuthSuccess ==
  /\ successTimers > 0
  /\ successTimers' = successTimers - 1
  /\ currentPage' = "main"
  /\ UNCHANGED <<state, localStorage, initpc, storedToken, authRequests>>
  /\ OthersUnchangedByAuth

AuthNext ==
  \/ InitAuthBegins
  \/ InitAuthResponds
  \/ Login
  \/ LoginResponds
  \/ Register
  \/ RegisterResponds
  \/ LoginWithGoogle
  \/ LoginWithGoogleResponds
  \/ SignOutClick
  \/ RefreshUser
  \/ RefreshUserResponds
  \/ NavigationClick
  \/ NavigateSignedOut
  \/ RedirectEffect
  \/ HandleAuthSuccess

(***************************************************************************)
(* Specifications                                                          *)
(***************************************************************************)
\* computeWordDiff starts while the others stay idle
DiffStart ==
  /\ DiffInit
  /\ SegChangeIdle
  /\ ExplainIdle
  /\ SegmentIdle
  /\ EditorIdle
  /\ MainIdle
  /\ FormIdle
  /\ AuthIdle

SpecDiff == DiffStart /\ [][DiffNext]_vars

\* the scan is a synchronous loop: it keeps running until it returns
SpecDiffFair == SpecDiff /\ WF_vars(DiffNext)

\* computeSegmentChanges starts while the others stay idle
SegChangeStart ==
  /\ SegChangeInit
  /\ DiffIdle
  /\ ExplainIdle
  /\ SegmentIdle
  /\ EditorIdle
  /\ MainIdle
  /\ FormIdle
  /\ AuthIdle

SpecSegChange == SegChangeStart /\ [][SegChangeNext]_vars

\* clientExplainText or clientExplainImage starts while the others stay idle
ExplainStart ==
  /\ ExplainInit
  /\ DiffIdle
  /\ SegChangeIdle
  /\ SegmentIdle
  /\ EditorIdle
  /\ MainIdle
  /\ FormIdle
  /\ AuthIdle

SpecExplain == ExplainStart /\ [][ExplainNext]_vars

\* clientSegmentPrompt starts while the others stay idle
SegmentStart ==
  /\ SegmentInit
  /\ DiffIdle
  /\ SegChangeIdle
  /\ ExplainIdle
  /\ EditorIdle
  /\ MainIdle
  /\ FormIdle
  /\ AuthIdle

SpecSegment == SegmentStart /\ [][SegmentNext]_vars

\* the PromptSegmentEditor starts while the others stay idle
EditorStart ==
  /\ EditorInit
  /\ DiffIdle
  /\ SegChangeIdle
  /\ ExplainIdle
  /\ SegmentIdle
  /\ MainIdle
  /\ FormIdle
  /\ AuthIdle

SpecEditor == EditorStart /\ [][EditorNext]_vars

\* the ExplainableMainInterface starts while the others stay idle
MainStart ==
  /\ MainInit
  /\ DiffIdle
  /\ SegChangeIdle
  /\ ExplainIdle
  /\ SegmentIdle
  /\ EditorIdle
  /\ FormIdle
  /\ AuthIdle

SpecMain == MainStart /\ [][MainNext]_vars

\* the events that start, advance and end a run of handleGenerate, from both
\* of its callers, and those that change what their guards read; the other
\* handlers (loadFromHistory, clearHistory, handleReset) neither read nor
\* write isGenerating or a pending fetch
GenerationNext ==
  \/ SetOutputMode
  \/ HandleGenerateStart
  \/ GenerateTextResponds
  \/ ExplainTextResponds
  \/ GenerateImageResponds
  \/ DismissError
  \/ SetEditedPrompt
  \/ HandleRegenerate
  \/ RegenerateResumes

\* every fetch that handleGenerate awaits settles (it is answered or rejects)
SpecGenerationFair ==
  /\ MainStart
  /\ [][GenerationNext]_vars
  /\ WF_vars(GenerateTextResponds)
  /\ WF_vars(ExplainTextResponds)
  /\ WF_vars(GenerateImageResponds)

\* a prompt is compared with itself while the others stay idle
SelfCompareStart ==
  /\ SegmentInit
  /\ DiffIdle
  /\ SegChangeIdle
  /\ ExplainIdle
  /\ EditorIdle
  /\ MainIdle
  /\ FormIdle
  /\ AuthIdle

SpecSelfCompare == SelfCompareStart /\ [][SelfCompareNext]_vars

\* the FeedbackForm is mounted while the others stay idle
FormStart ==
  /\ FormInit
  /\ DiffIdle
  /\ SegChangeIdle
  /\ ExplainIdle
  /\ SegmentIdle
  /\ EditorIdle
  /\ MainIdle
  /\ AuthIdle

SpecForm == FormStart /\ [][FormNext]_vars

\* the FormNext steps a user can take through the rendered, enabled controls
FormEnabledNext ==
  \/ HandleLikertResponse
  \/ HandleBinaryResponse
  \/ SetComments
  \/ ToggleConsent
  \/ GoNext
  \/ GoBack
  \/ SubmitClick
  \/ OnSubmitSettles

SpecFormEnabled == FormStart /\ [][FormEnabledNext]_vars

\* the PromptSegmentEditor inside the ExplainableMainInterface: typing, the
\* debounce timer and the Generate button
SpecEditorGenerate == EditorStart /\ [][EditorGenerateNext]_vars

\* useSession starts with a new session while the others stay idle
SpecSession == MainStart /\ [][SessionNext]_vars

\* the AuthProvider and AppContent are mounted while the others stay idle
AuthStart ==
  /\ AuthInit
  /\ DiffIdle
  /\ SegChangeIdle
  /\ ExplainIdle
  /\ SegmentIdle
  /\ EditorIdle
  /\ MainIdle
  /\ FormIdle

SpecAuth == AuthStart /\ [][AuthNext]_vars

(***************************************************************************)
(* Properties of computeWordDiff                                           *)
(***************************************************************************)
\* the texts of the entries of d whose type is in T, in emitted order
RECURSIVE TextsOf(_, _)
TextsOf(d, T) ==
  IF d = <<>> THEN <<>>
  ELSE (IF Head(d).type \in T THEN <<Head(d).text>> ELSE <<>>)
       \o TextsOf(Tail(d), T)

DiffRoundTrip ==
  /\ i <= Len(oldWords)
  /\ j <= Len(newWords)
  /\ dpc = "done" =>
       /\ i = Len(SplitWs(oldText))
       /\ j = Len(SplitWs(newText))
       /\ TextsOf(diff, {"unchanged", "removed"}) = SplitWs(oldText)
       /\ TextsOf(diff, {"unchanged", "added"}) = SplitWs(newText)

\* C2: the scan of computeWordDiff always ends, with both cursors at the end
\* of their word sequences; the unchanged and removed words of the result, in
\* emitted order, are oldText's words and the unchanged and added words are
\* newText's words.
C2_WordDiffRoundTrip == []DiffRoundTrip /\ <>(dpc = "done")

\* a finished diff that holds an entry of each of the three types
C2_Witness ==
  /\ dpc = "done"
  /\ \A ty \in {"unchanged", "removed", "added"} :
       \E k \in 1..Len(diff) : diff[k].type = ty

\* C3: computeWordDiff(x, x) has exactly one entry per word of x, in order,
\* and every entry is tagged unchanged.
C3_SelfDiffUnchanged ==
  (dpc = "done" /\ oldText = newText) =>
     /\ Len(diff) = Len(SplitWs(oldText))
     /\ \A k \in 1..Len(diff) :
          diff[k] = WD(SplitWs(oldText)[k], "unchanged")

\* a text of at least two words diffed against itself
C3_Witness ==
  /\ dpc = "done"
  /\ oldText = newText
  /\ Len(diff) >= 2
  /\ diff[1].text # <<>>

\* the current words differ and both lookaheads succeed
BothLookaheadsFound ==
  /\ dpc = "scan"
  /\ i < Len(oldWords)
  /\ j < Len(newWords)
  /\ oldWords[i + 1] # newWords[j + 1]
  /\ FoundOldInNew(oldWords, newWords, i, j) # -1
  /\ FoundNewInOld(oldWords, newWords, i, j) # -1

\* lookahead distance of the new word in old, and of the old word in new
DistNewInOld == FoundNewInOld(oldWords, newWords, i, j) - i

DistOldInNew == FoundOldInNew(oldWords, newWords, i, j) - j

EmitsRemoved ==
  /\ diff' = Append(diff, WD(oldWords[i + 1], "removed"))
  /\ i' = i + 1
  /\ j' = j

EmitsAdded ==
  /\ diff' = Append(diff, WD(newWords[j + 1], "added"))
  /\ i' = i
  /\ j' = j + 1

\* C4 as stated: with both lookaheads found the shorter distance decides, and
\* on equal distances the old word is emitted as removed.
C4_TieEmitsRemoved ==
  [][BothLookaheadsFound =>
       IF DistNewInOld <= DistOldInNew THEN EmitsRemoved ELSE EmitsAdded]_vars

\* C4 as amended: with both lookaheads found the shorter distance decides, and
\* on equal distances the new word is emitted as added (the new cursor
\* advances first).
C4_TieEmitsAdded ==
  [][BothLookaheadsFound =>
       IF DistNewInOld < DistOldInNew THEN EmitsRemoved ELSE EmitsAdded]_vars

\* the first iteration met a tie between two successful lookaheads and
\* pushed the new word as added
C4_Witness ==
  /\ i = 0
  /\ j = 1
  /\ Len(oldWords) >= 1
  /\ diff = <<WD(newWords[1], "added")>>
  /\ oldWords[1] # newWords[1]
  /\ IndexOf(newWords, oldWords[1], 0) # -1
  /\ IndexOf(oldWords, newWords[1], 0) # -1
  /\ IndexOf(newWords, oldWords[1], 0) = IndexOf(oldWords, newWords[1], 0)

\* the current words differ and neither occurs in the rest of the other list
NeitherLookaheadFinds ==
  /\ dpc = "scan"
  /\ i < Len(oldWords)
  /\ j < Len(newWords)
  /\ oldWords[i + 1] # newWords[j + 1]
  /\ \A m \in (j + 1)..Len(newWords) : newWords[m] # oldWords[i + 1]
  /\ \A m \in (i + 1)..Len(oldWords) : oldWords[m] # newWords[j + 1]

\* the iteration taken there pushes removed(old word) and then added(new
\* word), and moves both cursors by one
ReplacementStep ==
  NeitherLookaheadFinds =>
    /\ diff' = diff \o <<WD(oldWords[i + 1], "removed"),
                         WD(newWords[j + 1], "added")>>
    /\ i' = i + 1
    /\ j' = j + 1

ExampleDiff ==
  (dpc = "done" /\ oldText = ExampleOldText /\ newText = ExampleNewText) =>
    diff = <<WD(<<"a">>, "unchanged"), WD(<<"r", "e", "d">>, "removed"),
             WD(<<"b", "l", "u", "e">>, "added"),
             WD(<<"c", "a", "r">>, "unchanged")>>

\* C15: when the current old and new words differ and neither lookahead finds
\* a match, computeWordDiff emits the old word as removed immediately followed
\* by the new word as added and advances both cursors by one; "a red car"
\* against "a blue car" yields unchanged(a), removed(red), added(blue),
\* unchanged(car), in that order.
C15_ReplacementEmitsBoth == []ExampleDiff /\ [][ReplacementStep]_vars

\* the pair of the example diffed to the end
C15_Witness ==
  /\ dpc = "done"
  /\ oldText = ExampleOldText
  /\ newText = ExampleNewText
  /\ Len(diff) = 4

(***************************************************************************)
(* Properties of computeSegmentChanges                                     *)
(***************************************************************************)
\* the entries of changes that reference a segment with the given id
EntriesReferencing(id) ==
  {k \in 1..Len(changes) :
     \/ \E r \in 1..Len(changes[k].originalSegment) :
          changes[k].originalSegment[r].id = id
     \/ \E r \in 1..Len(changes[k].newSegment) :
          changes[k].newSegment[r].id = id}

\* the new segments no unchanged or modified entry refers to
UnmatchedNew ==
  {n \in 1..Len(newSegments) :
     ~\E k \in 1..Len(changes) :
        /\ changes[k].type \in {"unchanged", "modified"}
        /\ changes[k].newSegment = Present(newSegments[n])}

\* C5: computeSegmentChanges(orig, new) returns len(orig) + (number of new
\* segments left unmatched) entries, and every original segment id and every
\* new segment id is referenced by exactly one entry.
C5_SegmentChangesComplete ==
  scpc = "done" =>
    /\ Len(changes) = Len(originalSegments) + Cardinality(UnmatchedNew)
    /\ \A k \in 1..Len(originalSegments) :
         Cardinality(EntriesReferencing(originalSegments[k].id)) = 1
    /\ \A n \in 1..Len(newSegments) :
         Cardinality(EntriesReferencing(newSegments[n].id)) = 1

\* two originals against two new segments: one pair matched as modified, one
\* original removed and one new segment added
C5_Witness ==
  /\ scpc = "done"
  /\ Len(originalSegments) = 2
  /\ Len(newSegments) = 2
  /\ \A ty \in {"modified", "removed", "added"} :
       \E k \in 1..Len(changes) : changes[k].type = ty

\* C6: the shape of every SegmentChange is fixed by its type: unchanged and
\* modified entries hold one original and one new segment, added entries only
\* a new segment, removed entries only an original segment; no entry has both
\* references absent.
C6_SegmentChangeShape ==
  \A k \in 1..Len(changes) :
    LET c == changes[k]
        hasOrig == /\ Len(c.originalSegment) = 1
                   /\ \E m \in 1..Len(originalSegments) :
                        c.originalSegment[1] = originalSegments[m]
        hasNew  == /\ Len(c.newSegment) = 1
                   /\ \E m \in 1..Len(newSegments) :
                        c.newSegment[1] = newSegments[m]
    IN  /\ c.type \in {"unchanged", "modified", "added", "removed"}
        /\ c.type \in {"unchanged", "modified"} => hasOrig /\ hasNew
        /\ c.type = "added" => c.originalSegment = Absent /\ hasNew
        /\ c.type = "removed" => hasOrig /\ c.newSegment = Absent
        /\ ~(c.originalSegment = Absent /\ c.newSegment = Absent)

\* a result holding an unchanged, a removed and an added entry
C6_Witness ==
  /\ scpc = "done"
  /\ \A ty \in {"unchanged", "removed", "added"} :
       \E k \in 1..Len(changes) : changes[k].type = ty

\* the ids of the new segments taken by the entries before entry k
TakenBefore(k) ==
  {changes[m].newSegment[1].id :
     m \in {q \in 1..(k - 1) : changes[q].newSegment # Absent}}

\* the first (at most) five characters of text x occur in text y, ignoring case
StartContained(x, y) ==
  LET lx == ToLower(x)
      ly == ToLower(y)
      len == Min(5, Len(lx))
  IN  \E at \in 0..(Len(ly) - len) :
        \A c \in 1..len : ly[at + c] = lx[c]

\* the new segments still unmatched before entry k with text equal, ignoring
\* case, to that of original k
EqualCandidates(k) ==
  {n \in 1..Len(newSegments) :
     /\ newSegments[n].id \notin TakenBefore(k)
     /\ ToLower(newSegments[n].text) = ToLower(originalSegments[k].text)}

\* the new segments still unmatched before entry k that are similar to
\* original k
SimilarCandidates(k) ==
  {n \in 1..Len(newSegments) :
     /\ newSegments[n].id \notin TakenBefore(k)
     /\ \/ StartContained(originalSegments[k].text, newSegments[n].text)
        \/ StartContained(newSegments[n].text, originalSegments[k].text)}

\* the new segments no entry for an original refers to, in list order
RECURSIVE NeverMatched(_)
NeverMatched(n) ==
  IF n > Len(newSegments) THEN <<>>
  ELSE (IF newSegments[n].id \in TakenBefore(Len(originalSegments) + 1)
        THEN <<>> ELSE <<newSegments[n]>>) \o NeverMatched(n + 1)

\* C13: computeSegmentChanges classifies each original segment in list order,
\* first found wins: unchanged with the first not-yet-matched new segment of
\* equal text (ignoring case); otherwise modified with the first
\* not-yet-matched similar new segment (the first 5 characters of either text
\* contained in the other); otherwise removed; then every new segment never
\* matched is reported as added, in list order.
C13_ClassificationOrder ==
  scpc = "done" =>
    /\ Len(changes) >= Len(originalSegments)
    /\ \A k \in 1..Len(originalSegments) :
         /\ changes[k].originalSegment = Present(originalSegments[k])
         /\ IF EqualCandidates(k) # {}
            THEN /\ changes[k].type = "unchanged"
                 /\ changes[k].newSegment =
                      Present(newSegments[FirstOf(EqualCandidates(k))])
            ELSE IF SimilarCandidates(k) # {}
            THEN /\ changes[k].type = "modified"
                 /\ changes[k].newSegment =
                      Present(newSegments[FirstOf(SimilarCandidates(k))])
            ELSE /\ changes[k].type = "removed"
                 /\ changes[k].newSegment = Absent
    /\ LET added == NeverMatched(1)
       IN  /\ Len(changes) = Len(originalSegments) + Len(added)
           /\ \A m \in 1..Len(added) :
                changes[Len(originalSegments) + m] =
                  SegmentChange("added", Absent, Present(added[m]))

\* the first original takes the first of two similar new segments only because
\* it contains the start of the new text; the second original, equal to that
\* new segment ignoring case, finds it taken
C13_Witness ==
  /\ scpc = "done"
  /\ Len(originalSegments) = 2
  /\ Len(newSegments) = 2
  /\ changes[1].type = "modified"
  /\ changes[1].newSegment = Present(newSegments[1])
  /\ ~StartContained(originalSegments[1].text, newSegments[1].text)
  /\ ToLower(originalSegments[2].text) = ToLower(newSegments[1].text)
  /\ originalSegments[2].text # newSegments[1].text
  /\ changes[2].type # "unchanged"

(***************************************************************************)
(* Properties of clientExplainText / clientExplainImage                    *)
(***************************************************************************)
TextExplained == expc = "done" /\ exResult.kind = "text"

EverySegmentMapped ==
  \A k \in 1..Len(exSegments) :
    \E m \in 1..Len(exResult.mappings) :
      exResult.mappings[m].segmentId = exSegments[k].id

C8_ConfidenceBounds ==
  expc = "done" =>
    /\ \A m \in 1..Len(exResult.mappings) :
         /\ exResult.mappings[m].confidence >= 0
         /\ exResult.mappings[m].confidence <= ConfScale
    /\ exResult.overallConfidence.den > 0
    /\ exResult.mappings # <<>> =>
         exResult.overallConfidence.num * Len(exResult.mappings)
           = SumConfidence(exResult.mappings) * exResult.overallConfidence.den
    /\ exResult.mappings = <<>> => exResult.overallConfidence.num = 0

\* a text explanation with a mapping at the 0.95 cap and a lower one
C8_Witness ==
  /\ TextExplained
  /\ \E m \in 1..Len(exResult.mappings) :
       exResult.mappings[m].confidence = (95 * ConfScale) \div 100
  /\ \E m \in 1..Len(exResult.mappings) :
       exResult.mappings[m].confidence < (6 * ConfScale) \div 10

\* the positions in the result of the forced mappings of a segment
ForcedOf(segment) ==
  { m \in 1..Len(exResult.mappings) :
      /\ exResult.mappings[m].segmentId = segment.id
      /\ exResult.mappings[m].method = "embedding_similarity" }

\* the segment passes the token test on no sentence of the generated text
MatchedNoSentence(segment) ==
  \A s \in 1..Len(Sentences(exText)) :
    ~TokenMatch(SplitWs(ToLower(segment.text)), Sentences(exText)[s])

\* every forced mapping has a confidence in [0.3, 0.6) and a sentence index
\* within the sentence list; every token_overlap mapping is at most 0.95
MappingRanges ==
  \A m \in 1..Len(exResult.mappings) :
    LET mapping == exResult.mappings[m]
    IN  /\ mapping.method \in {"embedding_similarity", "token_overlap"}
        /\ mapping.method = "embedding_similarity" =>
             /\ mapping.confidence >= (3 * ConfScale) \div 10
             /\ mapping.confidence < (6 * ConfScale) \div 10
             /\ mapping.outputSentenceIndex \in 0..(Len(Sentences(exText)) - 1)
        /\ mapping.method = "token_overlap" =>
             mapping.confidence <= (95 * ConfScale) \div 100

C9_SegmentOffsetsOrdered ==
  (sppc = "done" /\ spPrompt # <<>>) =>
    LET segments == spResult.segments
    IN  /\ Len(segments) > 0
        /\ \A k \in 1..Len(segments) :
             /\ 0 <= segments[k].startIndex
             /\ segments[k].startIndex <= segments[k].endIndex
             /\ segments[k].endIndex <= Len(spPrompt)
        /\ \A k \in 2..Len(segments) :
             /\ segments[k - 1].startIndex <= segments[k].startIndex
             /\ segments[k - 1].endIndex <= segments[k].startIndex

\* a prompt split at a separator word into two segments, the second found
\* after the end of the first
C9_Witness ==
  /\ sppc = "done"
  /\ Len(spResult.segments) = 2
  /\ \E q \in 0..(Len(spPrompt) - 1) :
       \E w \in SeparatorWords : WordSeparatorEnd(spPrompt, q, w) # -1
  /\ spResult.segments[2].startIndex > spResult.segments[1].endIndex

\* the single segment of type semantic_chunk over the whole prompt
WholePromptChunk ==
  /\ Len(spResult.segments) = 1
  /\ spResult.segments[1].type = "semantic_chunk"
  /\ spResult.segments[1].startIndex = 0
  /\ spResult.segments[1].endIndex = Len(spPrompt)
  /\ spResult.segments[1].text = spPrompt
  /\ spResult.segments[1].importance = 1000

\* C17: segmenting the empty string returns exactly one segment, of type
\* semantic_chunk, with startIndex = endIndex = 0, empty text and importance
\* 1; whenever zero fragments survive, the result is a single semantic_chunk
\* spanning the whole prompt with importance 1.
C17_EmptyPromptChunk ==
  sppc = "done" =>
    /\ spPrompt = <<>> =>
         /\ WholePromptChunk
         /\ spResult.segments[1].endIndex = 0
         /\ spResult.segments[1].text = <<>>
    /\ Phrases(spPrompt) = <<>> => WholePromptChunk

\* the empty string segmented
C17_Witness ==
  /\ sppc = "done"
  /\ spPrompt = <<>>
  /\ Len(spResult.segments) = 1

\* the whitespace-separated words of s
Words(s) == NonBlank(SplitWs(s))

\* C18: clientSegmentPrompt assigns type phrase to a fragment exactly when
\* the fragment has more than two whitespace-separated words, and keyword
\* otherwise, for every fragment, those with consecutive spaces between
\* words included.
C18_PhraseByWordCount ==
  sppc = "done" =>
    \A k \in 1..Len(spResult.segments) :
      LET segment == spResult.segments[k]
      IN  segment.type # "semantic_chunk" =>
            segment.type = (IF Len(Words(segment.text)) > 2
                            THEN "phrase" ELSE "keyword")

\* the words of the segments, concatenated in segment order
RECURSIVE SegmentWords(_)
SegmentWords(segments) ==
  IF segments = <<>> THEN <<>>
  ELSE Words(Head(segments).text) \o SegmentWords(Tail(segments))

RECURSIVE IsSubsequence(_, _)
IsSubsequence(a, b) ==
  IF a = <<>> THEN TRUE
  ELSE IF b = <<>> THEN FALSE
  ELSE IF Head(a) = Head(b) THEN IsSubsequence(Tail(a), Tail(b))
  ELSE IsSubsequence(a, Tail(b))

\* s with every comma read as a space
CommasAsSpaces(s) == [k \in 1..Len(s) |-> IF s[k] = "," THEN " " ELSE s[k]]

\* C20 as stated: the words of the segments, concatenated in segment order,
\* form a subsequence of the prompt's whitespace-split word sequence.
C20_WordsSubsequence ==
  sppc = "done" =>
    IsSubsequence(SegmentWords(spResult.segments), Words(spPrompt))

\* C20 as amended: when at least one fragment survives, the words of the
\* segments, concatenated in segment order, form a subsequence of the words
\* of the prompt split at whitespace and at commas; when none survives the
\* single segment carries the prompt's whitespace-split words.
C20_WordsSubsequenceOfCommaSplit ==
  sppc = "done" =>
    IF Phrases(spPrompt) = <<>>
    THEN SegmentWords(spResult.segments) = Words(spPrompt)
    ELSE IsSubsequence(SegmentWords(spResult.segments),
                       Words(CommasAsSpaces(spPrompt)))

\* a prompt cut at a comma that touches a word: its segments' words are not
\* among the whitespace-split words of the prompt
C20_Witness ==
  /\ sppc = "done"
  /\ Len(spResult.segments) >= 2
  /\ \E k \in 1..Len(spPrompt) : spPrompt[k] = ","
  /\ ~IsSubsequence(SegmentWords(spResult.segments), Words(spPrompt))

(***************************************************************************)
(* Properties of PromptSegmentEditor                                       *)
(***************************************************************************)
SegmentWithinPrompt(segment, owningPrompt) ==
  /\ 0 <= segment.startIndex
  /\ segment.startIndex < segment.endIndex
  /\ segment.endIndex <= Len(owningPrompt)

\* C10: every segment held in the editor's segmented prompt satisfies
\* 0 <= startIndex < endIndex <= len(owning prompt) in every reachable state,
\* after extraction and after any sequence of edits (edit-save, add segment,
\* remove segment, category change).  handleAddSegment stores
\* endIndex = originalPrompt.length + 14 for a prompt it lengthens by 13
\* characters, and handleEditSave and handleRemoveSegment keep the offsets of
\* the prompt they replace, so the editor reaches states where this fails.
C10_SegmentIndicesWithinPrompt ==
  segmentedPrompt # Null =>
    \A k \in 1..Len(segmentedPrompt[1].segments) :
      SegmentWithinPrompt(segmentedPrompt[1].segments[k],
                          segmentedPrompt[1].originalPrompt)

\* the pending timer, if any, was scheduled for the current prompt
PendingTimerIsLatest == debounceTimer # Null => debounceTimer[1] = prompt

\* the step of a firing timer: the pending timer goes while the prompt stays
\* (a prompt change that clears the timer changes the prompt)
TimerFired ==
  /\ debounceTimer # Null
  /\ debounceTimer' = Null
  /\ prompt' = prompt

\* a firing timer applies the segmentation of the current prompt
FiringSegmentsLatest ==
  TimerFired =>
    /\ debounceTimer[1] = prompt
    /\ segmentedPrompt' # Null
    /\ segmentedPrompt'[1].originalPrompt = prompt'
    /\ \E rnd \in [1..DrawsOfSegmentPrompt(prompt) -> EditorRandomLevels] :
         segmentedPrompt'[1] = ClientSegmentPrompt(prompt, rnd, FreshIdBase)

\* C11: a re-segmentation scheduled for an earlier prompt value is cancelled
\* when the prompt changes again before the timer fires: the pending timer is
\* always the one of the latest prompt, the segmentation applied when it fires
\* is computed from the latest prompt, and after it fires no timer is pending
\* until the prompt changes again.
C11_LatestPromptSegmented ==
  []PendingTimerIsLatest /\ [][FiringSegmentsLatest]_vars

\* the segmentation of an earlier prompt is shown while the timer of a later,
\* different prompt is pending
C11_Witness ==
  /\ segmentedPrompt # Null
  /\ debounceTimer # Null
  /\ debounceTimer[1] = prompt
  /\ segmentedPrompt[1].originalPrompt # prompt
  /\ \E k \in 1..Len(segmentedPrompt[1].segments) :
       segmentedPrompt[1].segments[k].type # "phrase"

(***************************************************************************)
(* Properties of ExplainableMainInterface                                  *)
(***************************************************************************)
Failed == {"http_error", "network_error"}

\* a backend call of the call of handleGenerate failed
RunFailed ==
  \/ textResponse \in Failed
  \/ explainResponse \in Failed
  \/ imageResponse \in Failed

OutputsCleared ==
  /\ generatedText = <<>>
  /\ generatedImage = ""
  /\ textExplanation = Null
  /\ imageExplanation = Null
  /\ generationError # Null

\* C1: whenever a backend call of a generation (/generate/text,
\* /explain/text or /generate/image) fails by network error or non-2xx status,
\* the run of handleGenerate ends with generatedText = '', generatedImage = '',
\* textExplanation = null, imageExplanation = null and a non-null
\* generationError.  A non-2xx answer of /explain/text or /generate/image does
\* not reach the catch block, so the run ends with the generated text kept, no
\* error, and (for /generate/image) the result of clientExplainImage stored.
C1_FailureClearsOutputs ==
  [][(genpc # "idle" /\ genpc' = "idle" /\ RunFailed') => OutputsCleared']_vars


\* a step stores an explanation computed by a client heuristic explainer: as
\* the explanation of the what-if editor's modified result, or as the image
\* explanation shown
ClientExplanationStored ==
  \/ /\ whatIfAwaiting # Null
     /\ whatIfAwaiting' = Null
     /\ modifiedResult' # Null
     /\ modifiedResult'[1].explanation.explanationMethod = "client_approximation"
  \/ /\ genpc # "idle"
     /\ genpc' = "idle"
     /\ imageExplanation' # Null
     /\ imageExplanation'[1].explanationMethod = "client_approximation"

\* C12: clientExplainText and clientExplainImage are invoked only after a
\* backend explanation or generation call was unreachable or returned an
\* error; after a successful backend response no client-approximated
\* explanation is computed for or attached to that result.  handleRegenerate
\* calls clientExplainText(editedSegments, '') and stores it in the modified
\* result after every regeneration, also when every backend call succeeded.
C12_ClientExplainersOnlyAfterFailure ==
  [][ClientExplanationStored => RunFailed']_vars


(***************************************************************************)
(* Properties of the comparison of an unedited prompt                      *)
(***************************************************************************)
\* C14: segmenting a prompt twice with clientSegmentPrompt and passing the
\* two segment lists to computeSegmentChanges yields only unchanged entries,
\* one per segment, and computeWordDiff of the prompt against itself yields
\* only unchanged entries.
C14_SelfComparisonUnchanged ==
  /\ scpc = "done" =>
       /\ Len(changes) = Len(originalSegments)
       /\ \A k \in 1..Len(changes) : changes[k].type = "unchanged"
  /\ dpc = "done" => \A k \in 1..Len(diff) : diff[k].type = "unchanged"

\* a prompt of two segments with the same text, compared and diffed
C14_Witness ==
  /\ scpc = "done"
  /\ dpc = "done"
  /\ Len(originalSegments) = 2
  /\ originalSegments[1].text = originalSegments[2].text
  /\ Len(changes) = 2
  /\ Len(diff) >= 2

(***************************************************************************)
(* Properties of FeedbackForm                                              *)
(***************************************************************************)
\* this step calls onSubmit
OnSubmitInvoked == feedbackInFlight = Null /\ feedbackInFlight' # Null

\* this step runs handleSubmit without consent
AttemptWithoutConsent ==
  handleSubmitCalls' # handleSubmitCalls /\ ~consentGiven

\* the step sets the consent message and nothing else of the form
OnlyErrorSet ==
  /\ error' = Some(ConsentError)
  /\ isSubmitted' = FALSE
  /\ UNCHANGED <<currentStep, responses, comments, consentGiven, isSubmitting,
                 isSubmitted, feedbackInFlight>>

\* C19: onSubmit is never invoked in a state where consentGiven is false (the
\* feedback it is handed carries consent = true); an attempt to submit
\* without consent only sets an error message and leaves isSubmitted false.
C19_SubmitNeedsConsent ==
  /\ [](feedbackInFlight # Null => feedbackInFlight[1].consent)
  /\ [][OnSubmitInvoked => consentGiven]_vars
  /\ [][AttemptWithoutConsent => OnlyErrorSet]_vars

\* handleSubmit ran without consent: the consent message is shown and
\* nothing was submitted
C19_Witness ==
  /\ handleSubmitCalls = 1
  /\ ~consentGiven
  /\ error = Some(ConsentError)
  /\ ~isSubmitted
  /\ ~isSubmitting
  /\ feedbackInFlight = Null


(***************************************************************************)
(* Properties of AppContent and AuthProvider                               *)
(***************************************************************************)
\* this step runs handleNavigate(page) without an authenticated user
NavigatesSignedOut(page) == ~state.isAuthenticated /\ HandleNavigate(page)

\* C21: when auth loading has finished and the user is not authenticated,
\* only the auth page is rendered (never main, dashboard, features,
\* documentation or support), and handleNavigate to any page other than
\* 'auth' while unauthenticated sets currentPage to 'auth'.
C21_SignedOutSeesOnlyAuth ==
  /\ []((~state.isLoading /\ ~state.isAuthenticated) =>
          Rendered(state, currentPage) = "auth")
  /\ [][\A page \in ProtectedPages :
          (NavigatesSignedOut(page) /\ UNCHANGED state) =>
            currentPage' = "auth"]_vars

\* signed out with currentPage still 'main' (the redirect effect has not run
\* yet): the AuthPage is what is rendered
C21_Witness ==
  /\ ~state.isLoading
  /\ ~state.isAuthenticated
  /\ currentPage = "main"
  /\ Rendered(state, currentPage) = "auth"

\* this step signs the user out
SignsOut == state.isAuthenticated /\ ~state'.isAuthenticated

\* C22: under every interleaving of login, register, loginWithGoogle, logout,
\* refreshUser and the initial token check, isAuthenticated = (token is
\* non-null) = (user is non-null) in every reachable state, and after logout
\* neither the token nor the user entry remains in localStorage.
C22_AuthStateConsistent ==
  /\ [](/\ state.isAuthenticated = (state.token # Null)
        /\ state.isAuthenticated = (state.user # Null))
  /\ [][SignsOut => localStorage' = EmptyStorage]_vars


(***************************************************************************)
(* Properties of the runs of handleGenerate                                *)
(***************************************************************************)
\* this step sends POST /generate/text: a generation starts
RequestIssued ==
  /\ genpc' = "generate_text"
  /\ genpc # "generate_text" \/ <<hgPrompt, hgSegments>>' # <<hgPrompt, hgSegments>>

\* C23: at most one generation is in flight at a time: a handleGenerate call
\* made while isGenerating is true (or with a blank prompt) changes no state
\* and issues no request; and every generation that starts eventually sets
\* isGenerating back to false, whether its backend calls succeed or fail.
C23_SingleFlightAndEnds ==
  /\ [](isGenerating <=> genpc # "idle")
  /\ [][RequestIssued => (~isGenerating /\ Trim(hgPrompt') # <<>>)]_vars
  /\ isGenerating ~> ~isGenerating

\* a generation whose second call rejected has ended
C23_Witness ==
  /\ ~isGenerating
  /\ genpc = "idle"
  /\ textResponse = "ok"
  /\ explainResponse = "network_error"

\* this step ends a run of handleGenerate
RunEnds == genpc # "idle" /\ genpc' = "idle"

\* /generate/text answered 200 and no fetch of the run rejected
SucceededWithoutException ==
  /\ textResponse' = "ok"
  /\ explainResponse' # "network_error"
  /\ imageResponse' # "network_error"

\* C24: a generation that ends in the error path leaves the session history
\* (session.prompts, currentPromptIndex) and the stored what-if baseline
\* (lastResultRef) unchanged; a run of handleGenerate appends a history entry
\* and replaces the baseline only when its text generation call succeeded
\* without any exception.
C24_ErrorPathKeepsHistory ==
  [][/\ (RunEnds /\ generationError' # Null) =>
          UNCHANGED <<sessionPrompts, currentPromptIndex, lastResultRef>>
     /\ Len(sessionPrompts') > Len(sessionPrompts) =>
          (RunEnds /\ SucceededWithoutException)
     /\ (RunEnds /\ lastResultRef' # lastResultRef) =>
          SucceededWithoutException]_vars

\* a run failed while a history entry and a baseline were stored
C24_Witness ==
  /\ genpc = "idle"
  /\ textResponse \in Failed
  /\ generationError # Null
  /\ lastResultRef # Null
  /\ Len(sessionPrompts) = 1

\* C25: in every reachable state of ExplainableMainInterface a non-null
\* generationError implies that generatedText and generatedImage are empty
\* and textExplanation and imageExplanation are null.
C25_ErrorImpliesNoOutputs ==
  generationError # Null =>
    /\ generatedText = <<>>
    /\ generatedImage = ""
    /\ textExplanation = Null
    /\ imageExplanation = Null


(***************************************************************************)
(* Properties of useSession                                                *)
(***************************************************************************)
\* this step appends to the history
EntryAppended == Len(sessionPrompts') > Len(sessionPrompts)

\* this step changes an entry of the history in place
EntryUpdated ==
  Len(sessionPrompts') = Len(sessionPrompts) /\ sessionPrompts' # sessionPrompts

\* C26: from a fresh session and under any sequence of addPrompt,
\* updateCurrentPrompt, selectPrompt(i) for any integer i, clearHistory and
\* resetSession, -1 <= currentPromptIndex <= len(prompts) - 1; addPrompt
\* appends exactly one entry, leaves earlier entries unchanged and selects the
\* new entry; updateCurrentPrompt changes nothing when currentPromptIndex is
\* -1 and otherwise changes only the selected entry.
C26_SessionIndexInRange ==
  /\ [](-1 <= currentPromptIndex /\ currentPromptIndex <= Len(sessionPrompts) - 1)
  /\ [][EntryAppended =>
          /\ Len(sessionPrompts') = Len(sessionPrompts) + 1
          /\ SubSeq(sessionPrompts', 1, Len(sessionPrompts)) = sessionPrompts
          /\ currentPromptIndex' = Len(sessionPrompts') - 1]_vars
  /\ [][EntryUpdated =>
          /\ currentPromptIndex >= 0
          /\ currentPromptIndex' = currentPromptIndex
          /\ \A k \in 1..Len(sessionPrompts) :
               k # currentPromptIndex + 1 => sessionPrompts'[k] = sessionPrompts[k]]_vars

\* an earlier entry of a history of three is selected and was updated
C26_Witness ==
  /\ Len(sessionPrompts) = 3
  /\ currentPromptIndex = 1
  /\ sessionPrompts[2].prompt = <<"c">>
  /\ sessionPrompts[3].prompt # <<"c">>


(***************************************************************************)
(* Properties of the editor's Generate button                              *)
(***************************************************************************)
\* this step calls onGenerate: handleGenerate takes its arguments
OnGenerateInvoked == genpc = "idle" /\ genpc' = "generate_text"

\* C27: whenever PromptSegmentEditor invokes onGenerate(prompt, segments),
\* the segments passed are the segmentation of exactly that prompt (the
\* segmented prompt's originalPrompt equals the prompt passed), for every
\* interleaving of typing, the 500 ms debounce timer and the Generate click.
C27_GenerateSegmentsMatchPrompt ==
  [][OnGenerateInvoked =>
       /\ segmentedPrompt # Null
       /\ segmentedPrompt[1].originalPrompt = hgPrompt'
       /\ hgSegments' = segmentedPrompt[1].segments]_vars


(***************************************************************************)
(* Properties of the fragment search of clientSegmentPrompt                *)
(***************************************************************************)
\* C28: the search for a fragment from the current cursor never fails: every
\* non-blank fragment of the split yields exactly one segment, so the number
\* of returned segments equals the number of non-blank fragments (or 1 when
\* there are none), and each segment's text equals
\* prompt.substring(startIndex, endIndex).
C28_EveryFragmentFound ==
  sppc = "done" =>
    LET segments == spResult.segments
        phrases == Phrases(spPrompt)
    IN  /\ Len(segments) = IF phrases = <<>> THEN 1 ELSE Len(phrases)
        /\ \A k \in 1..Len(phrases) : segments[k].text = Trim(phrases[k])
        /\ \A k \in 1..Len(segments) :
             segments[k].text =
               Sub(spPrompt, segments[k].startIndex, segments[k].endIndex)

\* the same fragment twice, next to a one-character separator: the second
\* one is found from the cursor, after the first
C28_Witness ==
  /\ sppc = "done"
  /\ Len(Phrases(spPrompt)) = 2
  /\ Len(spResult.segments) = 2
  /\ spResult.segments[1].text = spResult.segments[2].text
  /\ spResult.segments[2].startIndex = spResult.segments[1].endIndex + 1


(***************************************************************************)
(* Properties of the token test of clientExplainText                       *)
(***************************************************************************)
\* the non-empty words of text.toLowerCase().split(/\s+/)
NonEmptyWords(text) ==
  { SplitWs(ToLower(text))[k] : k \in 1..Len(SplitWs(ToLower(text))) } \ { <<>> }

\* C29: clientExplainText emits a token_overlap mapping from a segment to a
\* sentence only if some non-empty word of the segment and some non-empty
\* word of the sentence stand in a substring relation; a segment that shares
\* no characters with a sentence gets no token_overlap mapping to it.
C29_TokenOverlapNeedsSharedWord ==
  TextExplained =>
    \A m \in 1..Len(exResult.mappings) :
      LET mapping == exResult.mappings[m]
      IN  mapping.method = "token_overlap" =>
            \E w \in NonEmptyWords(mapping.segmentText),
               sw \in NonEmptyWords(Sentences(exText)[mapping.outputSentenceIndex + 1]) :
              Includes(sw, w) \/ Includes(w, sw)


(***************************************************************************)
(* Properties of the steps of FeedbackForm                                 *)
(***************************************************************************)
RequiredAnswered ==
  \A k \in 1..Len(SurveyQuestions) :
    SurveyQuestions[k].required => responses[SurveyQuestions[k].id] # Null

\* this step is the settling of the awaited onSubmit
OnSubmitSettled == feedbackInFlight # Null /\ feedbackInFlight' = Null

\* what the settling step does after a resolved and after a rejected promise
SettledAsResolved == isSubmitted' /\ error' = error

SettledAsRejected ==
  ~isSubmitted' /\ ~isSubmitted /\ error' = Some(SubmitError)

\* C30: under any sequence of Next, Back, answer, comment, consent-toggle and
\* Submit actions through the enabled controls, currentStep stays within
\* [0, totalSteps - 1] and the final consent/submit step is reached only
\* after every required survey question has a recorded response; isSubmitted
\* becomes true only when onSubmit resolved, and a rejected onSubmit leaves
\* isSubmitted false, sets an error, and resets isSubmitting to false.
C30_StepsAndSubmission ==
  /\ [](0 <= currentStep /\ currentStep <= TotalSteps - 1)
  /\ [](currentStep = TotalSteps - 1 => RequiredAnswered)
  /\ [][isSubmitted' # isSubmitted => (OnSubmitSettled /\ SettledAsResolved)]_vars
  /\ [][OnSubmitSettled =>
          /\ SettledAsResolved \/ SettledAsRejected
          /\ ~isSubmitting']_vars

\* on the last step, after a submission that was rejected
C30_Witness ==
  /\ currentStep = TotalSteps - 1
  /\ RequiredAnswered
  /\ handleSubmitCalls = 1
  /\ error = Some(SubmitError)
  /\ ~isSubmitted
  /\ ~isSubmitting

=============================================================================
